---- MODULE Spec2Model ----
(***************************************************************************)
(* Recommendation engine of the HowToCook MCP server: the recipe catalog,  *)
(* the preference filters, dish-combination selection and weekly meal-plan *)
(* generation, as called by the tool handlers.                             *)
(*                                                                         *)
(* String literals of the source are written in pinyin:                    *)
(*   categories   huncai 荤菜  sucai 素菜  tanggeng 汤羹  zhushi 主食          *)
(*                shuichan 水产  zaocan 早餐  tianpin 甜品                   *)
(*   difficulty   jiandan 简单  zhongdeng 中等  kunnan 困难                  *)
(*   skill level  chuxuezhe 初学者  zhongji 中级  gaoji 高级                 *)
(*   restrictions sushi 素食  wuhaixian 无海鲜  wujianguo 无坚果              *)
(*   meal types   zaocan 早餐  wucan 午餐  wancan 晚餐                       *)
(*   time units   xiaoshi 小时  fenzhong 分钟                               *)
(*   roles        zhucai 主菜  peicai 配菜  tangpin 汤品  zhushi 主食         *)
(*                tianpin 甜品  kaiweicai 开胃菜                            *)
(*   priority     bixuan 必选  tuijian 推荐  kexuan 可选                     *)
(* An optional value (a field that may be undefined) is a sequence of      *)
(* length 0 (undefined) or 1 (the value).  A text is a sequence of         *)
(* characters, one pinyin syllable per Chinese character.  A duration      *)
(* string is a sequence of pieces [num, unit]: a run of digits (num, or    *)
(* -1 when the piece has no digits) directly followed by the text unit.    *)
(***************************************************************************)
EXTENDS Integers, Sequences, FiniteSets, TLC

VARIABLES
    catalog,    \* RecipeDataManager.recipes
    input,      \* optional: the arguments of the tool call being served
    response,   \* optional: the MCPResponse the handler resolved to
    calls       \* the functions the handler of the current call has entered

vars == <<catalog, input, response, calls>>

----------------------------------------------------------------------------
(* Bounds *)

MaxCatalog == 3      \* recipes in a catalog
MaxInclude == 3      \* ids in includeRecipeIds
MaxExclude == 1      \* ids in excludeRecipeIds
MaxDishCount == 3    \* largest minDishes / maxDishes value drawn
MaxPage == 2         \* largest page drawn
MaxLimit == 2        \* largest limit drawn inside the schema's range

----------------------------------------------------------------------------
(* Generic helpers *)

None == <<>>
Some(v) == <<v>>

Max(a, b) == IF a >= b THEN a ELSE b
Min(a, b) == IF a <= b THEN a ELSE b

Range(s) == {s[i] : i \in 1..Len(s)}

\* v || d on numbers
OrDefault(v, d) == IF v = 0 THEN d ELSE v

\* Array.prototype.includes
Includes(s, v) == \E i \in 1..Len(s) : s[i] = v

\* String.prototype.includes on texts
TextIncludes(text, kw) ==
    \E i \in 0..(Len(text) - Len(kw)) :
        \A j \in 1..Len(kw) : text[i + j] = kw[j]

----------------------------------------------------------------------------
(* Recipes *)

Minutes(n) == <<[num |-> n, unit |-> "fenzhong"]>>
Hours(n) == <<[num |-> n, unit |-> "xiaoshi"]>>

\* names 红烧肉, 宫保鸡丁, 炒白菜, 蒸蛋; ingredients zhurou 猪肉, jirou 鸡肉,
\* huashengmi 花生米, baicai 白菜, jidan 鸡蛋; units ke 克, ge 个; steps qie 切,
\* chao 炒, zheng 蒸.  dateAdded and lastModified are instants (days); the
\* description, totalTime, cookingMethods, nutritionalInfo, tips, variations,
\* imageUrl and source of a recipe are not carried.
RecipePool ==
    [r1 |-> [id |-> "r1", name |-> <<"hong", "shao", "rou">>,
             category |-> "huncai", difficulty |-> "jiandan",
             servings |-> 2, prepTime |-> Minutes(10), cookTime |-> Minutes(20),
             ingredients |-> <<[name |-> <<"zhu", "rou">>, amount |-> <<"2", "0", "0", "ke">>]>>,
             steps |-> <<"qie", "chao">>,
             tags |-> None, dateAdded |-> 2, lastModified |-> 2],
     r2 |-> [id |-> "r2", name |-> <<"gong", "bao", "ji", "ding">>,
             category |-> "huncai", difficulty |-> "zhongdeng",
             servings |-> 4, prepTime |-> Minutes(15), cookTime |-> Hours(1),
             ingredients |-> <<[name |-> <<"ji", "rou">>, amount |-> <<"3", "0", "0", "ke">>],
                               [name |-> <<"hua", "sheng", "mi">>, amount |-> <<"5", "0", "ke">>]>>,
             steps |-> <<"qie", "chao">>,
             tags |-> None, dateAdded |-> 4, lastModified |-> 4],
     r3 |-> [id |-> "r3", name |-> <<"chao", "bai", "cai">>,
             category |-> "sucai", difficulty |-> "kunnan",
             servings |-> 2, prepTime |-> Minutes(5), cookTime |-> Minutes(18),
             ingredients |-> <<[name |-> <<"bai", "cai">>, amount |-> <<"1", " ", "ke">>]>>,
             steps |-> <<"chao">>,
             tags |-> None, dateAdded |-> 1, lastModified |-> 1],
     r4 |-> [id |-> "r4", name |-> <<"zheng", "dan">>,
             category |-> "zaocan", difficulty |-> "jiandan",
             servings |-> 1, prepTime |-> Minutes(5),
             cookTime |-> Hours(1) \o Minutes(30),
             ingredients |-> <<[name |-> <<"ji", "dan">>, amount |-> <<"2", "ge">>]>>,
             steps |-> <<"zheng">>,
             tags |-> Some(<<"zaocan">>), dateAdded |-> 3, lastModified |-> 3]]

IdOrder == <<"r1", "r2", "r3", "r4">>
Ids == Range(IdOrder)
IdIndex(id) == CHOOSE i \in 1..Len(IdOrder) : IdOrder[i] = id

\* lists of ids in non-decreasing pool order (an id may repeat), 1..n long
IdLists(n) ==
    {s \in UNION {[1..k -> Ids] : k \in 1..n} :
        \A i \in 1..(Len(s) - 1) : IdIndex(s[i]) <= IdIndex(s[i + 1])}

\* catalogs: up to n recipes with pairwise distinct ids, in any order
Catalogs(n) ==
    {[i \in 1..Len(s) |-> RecipePool[s[i]]] :
        s \in {t \in UNION {[1..k -> Ids] : k \in 0..n} :
                 \A i, j \in 1..Len(t) : i # j => t[i] # t[j]}}

IdsOf(recipes) == {recipes[i].id : i \in 1..Len(recipes)}

----------------------------------------------------------------------------
(* Duration strings *)

\* timeStr.match(/(\d+)<unit>/): the digits of the first piece that has
\* digits directly followed by the unit, or None
MatchUnit(timeStr, unit) ==
    LET hits == {i \in 1..Len(timeStr) :
                    timeStr[i].num >= 0 /\ timeStr[i].unit = unit}
    IN IF hits = {} THEN None
       ELSE Some(timeStr[CHOOSE i \in hits : \A j \in hits : i <= j].num)

parseTimeInMinutes(timeStr) ==
    LET hourMatch == MatchUnit(timeStr, "xiaoshi")
        minuteMatch == MatchUnit(timeStr, "fenzhong")
    IN (IF hourMatch # None THEN hourMatch[1] * 60 ELSE 0)
       + (IF minuteMatch # None THEN minuteMatch[1] ELSE 0)

formatTimeFromMinutes(minutes) ==
    IF minutes < 60 THEN Minutes(minutes)
    ELSE IF minutes % 60 = 0 THEN Hours(minutes \div 60)
    ELSE Hours(minutes \div 60) \o Minutes(minutes % 60)

\* Math.round(x) for x = p / q >= 0: the nearest integer, halves upwards
MathRound(p, q) == (2 * p + q) \div (2 * q)

RECURSIVE SumSeq(_)
SumSeq(numbers) ==
    IF numbers = <<>> THEN 0 ELSE Head(numbers) + SumSeq(Tail(numbers))

----------------------------------------------------------------------------
(* Dish combination: dishCombinationUtils *)

NutKeywords == {<<"hua", "sheng">>, <<"he", "tao">>, <<"xing", "ren">>}

RestrictionHits_MeatAllowed(restriction, recipe) ==
    \/ restriction = "wuhaixian" /\ recipe.category = "shuichan"
    \/ /\ restriction = "wujianguo"
       /\ \E i \in 1..Len(recipe.ingredients) :
            \E kw \in NutKeywords :
                TextIncludes(recipe.ingredients[i].name, kw)

\* the predicate of restrictions.some(...): the restriction rules the recipe out
RestrictionHits(restriction, recipe) ==
    \/ restriction = "sushi" /\ recipe.category = "huncai"
    \/ restriction = "wuhaixian" /\ recipe.category = "shuichan"
    \/ /\ restriction = "wujianguo"
       /\ \E i \in 1..Len(recipe.ingredients) :
            \E kw \in NutKeywords :
                TextIncludes(recipe.ingredients[i].name, kw)

skillMap ==
    [chuxuezhe |-> <<"jiandan">>,
     zhongji |-> <<"jiandan", "zhongdeng">>,
     gaoji |-> <<"jiandan", "zhongdeng", "kunnan">>]

CombinationDietaryKeeps(preferences, recipe) ==
    ~ \E i \in 1..Len(preferences.dietaryRestrictions[1]) :
        RestrictionHits(preferences.dietaryRestrictions[1][i], recipe)

filterRecipesByCombinationPreferences(recipes, preferences) ==
    LET byDiet ==
            IF /\ preferences.dietaryRestrictions # None
               /\ Len(preferences.dietaryRestrictions[1]) > 0
            THEN SelectSeq(recipes,
                     LAMBDA r : CombinationDietaryKeeps(preferences, r))
            ELSE recipes
        bySkill ==
            IF preferences.skillLevel # None
            THEN SelectSeq(byDiet,
                     LAMBDA r : Includes(skillMap[preferences.skillLevel[1]],
                                         r.difficulty))
            ELSE byDiet
        byTime ==
            IF preferences.cookingTime # None /\ preferences.cookingTime[1] # <<>>
            THEN SelectSeq(bySkill,
                     LAMBDA r : parseTimeInMinutes(r.prepTime)
                                  + parseTimeInMinutes(r.cookTime)
                                <= parseTimeInMinutes(preferences.cookingTime[1]))
            ELSE bySkill
    IN byTime

\* the category pass looks at 荤菜 only
categoryPriority_MeatOnly == <<"huncai">>

categoryPriority == <<"huncai", "sucai", "tanggeng", "zhushi", "shuichan">>

WithoutId(recipes, id) == SelectSeq(recipes, LAMBDA r : r.id # id)

AfterExclude_KeepsAll(recipes, excludeIds) == recipes

\* availableRecipes after the exclude filter
AfterExclude(recipes, excludeIds) ==
    IF excludeIds # None /\ Len(excludeIds[1]) > 0
    THEN SelectSeq(recipes, LAMBDA r : ~ Includes(excludeIds[1], r.id))
    ELSE recipes

\* the required recipes pushed first
RequiredRecipes(recipes, includeIds) ==
    IF includeIds # None /\ Len(includeIds[1]) > 0
    THEN SelectSeq(recipes, LAMBDA r : Includes(includeIds[1], r.id))
    ELSE <<>>

AfterInclude_KeepsRequired(available, includeIds) == available

\* availableRecipes after the include step
AfterInclude(available, includeIds) ==
    IF includeIds # None /\ Len(includeIds[1]) > 0
    THEN SelectSeq(available, LAMBDA r : ~ Includes(includeIds[1], r.id))
    ELSE available

\* the category loop from categoryPriority[k] on; one [selected, available]
\* pair per sequence of random draws
RECURSIVE CategoryPass(_, _, _, _, _)
CategoryPass(k, selected, used, available, maxDishes) ==
    IF k > Len(categoryPriority) \/ Len(selected) >= maxDishes
    THEN {[selected |-> selected, available |-> available]}
    ELSE LET category == categoryPriority[k]
             categoryRecipes ==
                 SelectSeq(available, LAMBDA r : r.category = category)
         IN IF category \in used \/ Len(categoryRecipes) = 0
            THEN CategoryPass(k + 1, selected, used, available, maxDishes)
            ELSE UNION {CategoryPass(k + 1,
                                     Append(selected, categoryRecipes[i]),
                                     used \cup {category},
                                     WithoutId(available, categoryRecipes[i].id),
                                     maxDishes) :
                        i \in 1..Len(categoryRecipes)}

FillRemaining_NoFill(selected, available, target) == {selected}

\* the while loop that fills up to the target; one result per sequence of draws
RECURSIVE FillRemaining(_, _, _)
FillRemaining(selected, available, target) ==
    IF Len(selected) < target /\ Len(available) > 0
    THEN UNION {FillRemaining(Append(selected, available[i]),
                              WithoutId(available, available[i].id),
                              target) :
                i \in 1..Len(available)}
    ELSE {selected}

\* every list selectDishesForCombination can return
selectDishesForCombination(recipes, maxDishes, minDishes, includeIds, excludeIds) ==
    LET required == RequiredRecipes(recipes, includeIds)
        available == AfterInclude(AfterExclude(recipes, excludeIds), includeIds)
        remainingSlots == Min(maxDishes - Len(required),
                              Max(0, minDishes - Len(required)))
        usedCategories == {required[i].category : i \in 1..Len(required)}
    IN UNION {FillRemaining(p.selected, p.available,
                            Max(minDishes, remainingSlots)) :
              p \in CategoryPass(1, required, usedCategories, available,
                                 maxDishes)}

determineDishRole(recipe) ==
    CASE recipe.category \in {"huncai", "shuichan"} -> "zhucai"
      [] recipe.category = "sucai" -> "peicai"
      [] recipe.category = "tanggeng" -> "tangpin"
      [] recipe.category = "zhushi" -> "zhushi"
      [] recipe.category = "tianpin" -> "tianpin"
      [] OTHER -> "peicai"

determineDishPriority(role, preferences) ==
    IF role \in {"zhucai", "zhushi"} THEN "bixuan"
    ELSE IF role = "tangpin" /\ preferences.numberOfPeople > 2 THEN "tuijian"
    ELSE "kexuan"

getServingOrder(role) ==
    CASE role = "kaiweicai" -> 1
      [] role = "tangpin" -> 2
      [] role = "zhucai" -> 3
      [] role = "peicai" -> 4
      [] role = "zhushi" -> 5
      [] role = "tianpin" -> 6
      [] OTHER -> 3

assignDishRoles(recipes, preferences) ==
    [i \in 1..Len(recipes) |->
        LET role == determineDishRole(recipes[i])
        IN [recipe |-> recipes[i],
            role |-> role,
            priority |-> determineDishPriority(role, preferences),
            preparationOrder |-> i,
            servingOrder |-> getServingOrder(role)]]

calculateTotalPrepTime(dishes) ==
    formatTimeFromMinutes(
        SumSeq([i \in 1..Len(dishes) |-> parseTimeInMinutes(dishes[i].recipe.prepTime)]))

\* the longest time is kept instead of the larger of it and 60% of the total
EstimatedTime_LongestOnly(maxCookTime, totalCookTime) == MathRound(maxCookTime, 1)

\* Math.round(Math.max(maxCookTime, totalCookTime * 0.6))
EstimatedTime(maxCookTime, totalCookTime) ==
    MathRound(Max(10 * maxCookTime, 6 * totalCookTime), 10)

\* Math.max(...cookTimes) of no dish is -Infinity, and the estimate is then
\* the other operand, 0 * 0.6
calculateTotalCookTime(dishes) ==
    LET cookTimes == [i \in 1..Len(dishes) |-> parseTimeInMinutes(dishes[i].recipe.cookTime)]
    IN formatTimeFromMinutes(
           IF cookTimes = <<>> THEN 0
           ELSE EstimatedTime(CHOOSE m \in Range(cookTimes) :
                                  \A t \in Range(cookTimes) : t <= m,
                              SumSeq(cookTimes)))

analyzeNutritionalBalance(dishes) ==
    LET categories == {dishes[i].recipe.category : i \in 1..Len(dishes)}
        hasProtein == categories \cap {"huncai", "shuichan", "dannai"} # {}
        hasVegetables == "sucai" \in categories
        hasCarbs == "zhushi" \in categories
    IN [hasProtein |-> hasProtein, hasVegetables |-> hasVegetables,
        hasCarbs |-> hasCarbs,
        isBalanced |-> hasProtein /\ hasVegetables /\ hasCarbs]

\* 酸 甜 苦 辣 咸 鲜 香 清淡 浓郁
FlavorTags ==
    {"suan", "tian", "ku", "la", "xian", "xian2", "xiang", "qingdan", "nongyu"}

\* the flavour tags of the dishes, each once, in the order of first
\* appearance (the recipes carry no cookingMethods)
RECURSIVE FlavorsFrom(_, _)
FlavorsFrom(flavors, tags) ==
    IF tags = <<>> THEN flavors
    ELSE FlavorsFrom(IF Head(tags) \in FlavorTags /\ ~ Includes(flavors, Head(tags))
                     THEN Append(flavors, Head(tags)) ELSE flavors,
                     Tail(tags))

RECURSIVE analyzeFlavorProfile(_, _)
analyzeFlavorProfile(flavors, dishes) ==
    IF dishes = <<>> THEN flavors
    ELSE analyzeFlavorProfile(
             IF Head(dishes).recipe.tags = None THEN flavors
             ELSE FlavorsFrom(flavors, Head(dishes).recipe.tags[1]),
             Tail(dishes))

\* 经济, 中等, 高档
costRanges ==
    [jingji |-> <<20, 40>>, zhongdeng |-> <<40, 80>>, gaodang |-> <<80, 150>>]

CostRangeOf(budgetLevel) ==
    IF budgetLevel # None /\ budgetLevel[1] \in DOMAIN costRanges
    THEN costRanges[budgetLevel[1]]
    ELSE costRanges.zhongdeng

\* the text `${low}-${high}元`
estimateCombinationCost(dishes, budgetLevel) ==
    LET dishCount == Len(dishes)
        range == CostRangeOf(budgetLevel)
        estimatedCost == range[1] + (dishCount - 3) * 10
    IN [low |-> Max(range[1], estimatedCost),
        high |-> Min(range[2], estimatedCost + 20),
        unit |-> "yuan"]

\* the properties generateDishCombination computes from the dishes; the id,
\* name, description, type, difficulty, cookingTips, alternatives and
\* createdAt of a combination are not carried
CombinationOf(dishes, preferences) ==
    [dishes |-> dishes,
     totalPrepTime |-> calculateTotalPrepTime(dishes),
     totalCookTime |-> calculateTotalCookTime(dishes),
     servings |-> preferences.numberOfPeople,
     nutritionalBalance |-> analyzeNutritionalBalance(dishes),
     flavorProfile |-> analyzeFlavorProfile(<<>>, dishes),
     estimatedCost |-> estimateCombinationCost(dishes, preferences.budgetLevel)]

\* every combination generateDishCombination can return
generateDishCombination(recipes, request) ==
    LET suitableRecipes ==
            filterRecipesByCombinationPreferences(recipes, request.preferences)
    IN {CombinationOf(assignDishRoles(selected, request.preferences),
                      request.preferences) :
        selected \in selectDishesForCombination(suitableRecipes,
                        OrDefault(request.maxDishes, 6),
                        OrDefault(request.minDishes, 3),
                        request.includeRecipeIds, request.excludeRecipeIds)}

----------------------------------------------------------------------------
(* Catalog and responses *)

getAllRecipes == catalog

\* the failure leaves the handler as an exception instead of a response
ErrorResponse_Thrown(error, details) == [thrown |-> details]

ErrorResponse(error, details) ==
    [success |-> FALSE, error |-> error, details |-> details]

SuccessResponse(message, data) ==
    [success |-> TRUE, message |-> message, data |-> data]

Idle == input = None /\ response = None /\ calls = <<>>

----------------------------------------------------------------------------
(* Tool recommend_dish_combination *)

\* RecommendDishCombinationInput.parse succeeds
RecommendDishCombinationInputValid(in) ==
    /\ in.preferences.numberOfPeople >= 1
    /\ in.preferences.numberOfPeople <= 20
    /\ in.maxDishes # None => in.maxDishes[1] >= 2 /\ in.maxDishes[1] <= 10
    /\ in.minDishes # None => in.minDishes[1] >= 2 /\ in.minDishes[1] <= 8

InvalidDishCountConstraints_Unchecked(minDishes, maxDishes) == FALSE

\* the dish count validation
InvalidDishCountConstraints(minDishes, maxDishes) == minDishes > maxDishes

\* a JavaScript number: the fraction num / den, or NaN
Number(num, den) == [nan |-> FALSE, num |-> num, den |-> den]
NaN == [nan |-> TRUE, num |-> 0, den |-> 1]

\* Math.max(1, 11 - difficultyVariety * 2) without the lower bound
DifficultyBalance_Unbounded(difficultyVariety) == 11 - difficultyVariety * 2

DifficultyBalance(difficultyVariety) == Max(1, 11 - difficultyVariety * 2)

\* Math.max(1, Math.min(10, 10 - avgCookTime / 10)) for the average
\* totalCookTime / dishCount, which is NaN when there is no dish
TimeEfficiency(totalCookTime, dishCount) ==
    IF dishCount = 0 THEN NaN
    ELSE Number(Max(10 * dishCount,
                    Min(100 * dishCount, 100 * dishCount - totalCookTime)),
                10 * dishCount)

\* Math.round((whole + timeEfficiency) / 4)
OverallScore(whole, timeEfficiency) ==
    IF timeEfficiency.nan THEN NaN
    ELSE Number(MathRound(whole * timeEfficiency.den + timeEfficiency.num,
                          4 * timeEfficiency.den), 1)

\* the scores of analyzeCombination; strengths and improvements are not
\* carried
AnalysisOf(nutritionalScore, flavorHarmony, difficultyBalance, timeEfficiency) ==
    [nutritionalScore |-> nutritionalScore,
     flavorHarmony |-> flavorHarmony,
     difficultyBalance |-> difficultyBalance,
     timeEfficiency |-> timeEfficiency,
     overallScore |-> OverallScore(nutritionalScore + flavorHarmony
                                   + difficultyBalance, timeEfficiency)]

analyzeCombination(combination) ==
    AnalysisOf(
        (IF combination.nutritionalBalance.hasProtein THEN 3 ELSE 0)
        + (IF combination.nutritionalBalance.hasVegetables THEN 3 ELSE 0)
        + (IF combination.nutritionalBalance.hasCarbs THEN 2 ELSE 0)
        + (IF combination.nutritionalBalance.isBalanced THEN 2 ELSE 0),
        Min(10, Len(combination.flavorProfile) * 2),
        DifficultyBalance(Cardinality(
            {combination.dishes[i].recipe.difficulty :
                i \in 1..Len(combination.dishes)})),
        TimeEfficiency(
            SumSeq([i \in 1..Len(combination.dishes) |->
                       parseTimeInMinutes(combination.dishes[i].recipe.cookTime)]),
            Len(combination.dishes)))

\* every [response, calls] the handler can resolve to on the given catalog
handleRecommendDishCombination(allRecipes, in) ==
    IF ~ RecommendDishCombinationInputValid(in)
    THEN {[response |-> ErrorResponse("Failed to generate dish combination",
                                      "ZodError"),
           calls |-> <<"parse">>]}
    ELSE
    LET maxDishes == IF in.maxDishes = None THEN 6 ELSE in.maxDishes[1]
        minDishes == IF in.minDishes = None THEN 3 ELSE in.minDishes[1]
        combinationRequest ==
            [preferences |-> in.preferences,
             excludeRecipeIds |-> in.excludeRecipeIds,
             includeRecipeIds |-> in.includeRecipeIds,
             maxDishes |-> maxDishes,
             minDishes |-> minDishes]
    IN IF InvalidDishCountConstraints(minDishes, maxDishes)
       THEN {[response |-> ErrorResponse("Invalid dish count constraints",
                 "Minimum dishes cannot be greater than maximum dishes"),
              calls |-> <<"parse">>]}
       ELSE IF Len(allRecipes) = 0
       THEN {[response |-> ErrorResponse("No recipes available",
                                         "Recipe database is empty"),
              calls |-> <<"parse", "getAllRecipes">>]}
       ELSE {[response |->
                 SuccessResponse(
                     [text |-> "Generated dish combination",
                      dishes |-> Len(combination.dishes),
                      people |-> in.preferences.numberOfPeople],
                     [combination |-> combination,
                      analysis |-> analyzeCombination(combination)]),
              calls |-> <<"parse", "getAllRecipes", "generateDishCombination",
                          "filterRecipesByPreferences",
                          "selectDishesForCombination", "assignDishRoles">>] :
             combination \in generateDishCombination(allRecipes,
                                                     combinationRequest)}

CombinationPreferencesSet ==
    {[numberOfPeople |-> 2, budgetLevel |-> None, dietaryRestrictions |-> None,
      skillLevel |-> None, cookingTime |-> None],
     [numberOfPeople |-> 4, budgetLevel |-> Some("jingji"),
      dietaryRestrictions |-> Some(<<"sushi">>),
      skillLevel |-> None, cookingTime |-> None],
     [numberOfPeople |-> 2, budgetLevel |-> Some("zhongdeng"),
      dietaryRestrictions |-> Some(<<"wujianguo">>),
      skillLevel |-> Some("zhongji"), cookingTime |-> None],
     [numberOfPeople |-> 3, budgetLevel |-> Some("gaodang"),
      dietaryRestrictions |-> Some(<<>>),
      skillLevel |-> Some("chuxuezhe"), cookingTime |-> Some(Minutes(30))],
     [numberOfPeople |-> 0, budgetLevel |-> None, dietaryRestrictions |-> None,
      skillLevel |-> None, cookingTime |-> None]}

OptionalIdLists(n) == {None} \cup {Some(l) : l \in IdLists(n)}

DishCountOptions == {None} \cup {Some(n) : n \in 2..MaxDishCount}

CombinationInputs ==
    [preferences : CombinationPreferencesSet,
     excludeRecipeIds : OptionalIdLists(MaxExclude),
     includeRecipeIds : OptionalIdLists(MaxInclude),
     maxDishes : DishCountOptions,
     minDishes : DishCountOptions]

HandleRecommendDishCombination ==
    /\ Idle
    /\ \E in \in CombinationInputs :
         \E out \in handleRecommendDishCombination(getAllRecipes, in) :
            /\ input' = Some([tool |-> "recommend_dish_combination",
                              args |-> in])
            /\ response' = Some(out.response)
            /\ calls' = out.calls
    /\ UNCHANGED catalog

\* the server sends the result and waits for the next request
ReturnResult ==
    /\ response # None
    /\ input' = None
    /\ response' = None
    /\ calls' = <<>>
    /\ UNCHANGED catalog

----------------------------------------------------------------------------
(* Meal plans: mealPlanUtils *)

MealDietaryKeeps(preferences, recipe) ==
    LET restrictions == preferences.dietaryRestrictions[1]
    IN /\ ~ (Includes(restrictions, "sushi") /\ recipe.category = "huncai")
       /\ ~ (Includes(restrictions, "wuhaixian") /\ recipe.category = "shuichan")

filterRecipesByPreferences(recipes, preferences) ==
    LET byDiet ==
            IF /\ preferences.dietaryRestrictions # None
               /\ Len(preferences.dietaryRestrictions[1]) > 0
            THEN SelectSeq(recipes, LAMBDA r : MealDietaryKeeps(preferences, r))
            ELSE recipes
        byExcluded ==
            IF /\ preferences.excludedCategories # None
               /\ Len(preferences.excludedCategories[1]) > 0
            THEN SelectSeq(byDiet,
                     LAMBDA r : ~ Includes(preferences.excludedCategories[1],
                                           r.category))
            ELSE byDiet
        preferred ==
            IF /\ preferences.preferredCategories # None
               /\ Len(preferences.preferredCategories[1]) > 0
            THEN SelectSeq(byExcluded,
                     LAMBDA r : Includes(preferences.preferredCategories[1],
                                         r.category))
            ELSE <<>>
        byPreferred == IF Len(preferred) > 0 THEN preferred ELSE byExcluded
        bySkill ==
            IF preferences.cookingSkillLevel # None
            THEN SelectSeq(byPreferred,
                     LAMBDA r : Includes(skillMap[preferences.cookingSkillLevel[1]],
                                         r.difficulty))
            ELSE byPreferred
    IN bySkill

\* the meals one slot can get: none when no recipe is eligible, else one
\* meal per possible random draw
SlotMeals(mealType, candidates, preferences) ==
    IF Len(candidates) > 0
    THEN {<<[mealType |-> mealType, recipe |-> candidates[i],
             servings |-> preferences.numberOfPeople]>> :
          i \in 1..Len(candidates)}
    ELSE {<<>>}

\* lunch may also be taken from the breakfast category
LunchCategories_WithBreakfast ==
    {"huncai", "sucai", "zhushi", "tanggeng", "zaocan"}

\* the categories of the lunch filter
LunchCategories == {"huncai", "sucai", "zhushi", "tanggeng"}

\* the categories of the dinner filter
DinnerCategories == {"huncai", "sucai", "shuichan", "tanggeng"}

\* every meals list generateDailyMealPlan can produce
generateDailyMealPlan(recipes, preferences) ==
    LET breakfastRecipes ==
            SelectSeq(recipes,
                LAMBDA r : \/ r.category = "zaocan"
                           \/ (r.tags # None /\ Includes(r.tags[1], "zaocan")))
        lunchRecipes ==
            SelectSeq(recipes,
                LAMBDA r : r.category \in LunchCategories)
        dinnerRecipes ==
            SelectSeq(recipes,
                LAMBDA r : r.category \in DinnerCategories)
    IN {b \o l \o d :
          b \in SlotMeals("zaocan", breakfastRecipes, preferences),
          l \in SlotMeals("wucan", lunchRecipes, preferences),
          d \in SlotMeals("wancan", dinnerRecipes, preferences)}

daysOfWeek == <<"zhouyi", "zhouer", "zhousan", "zhousi", "zhouwu", "zhouliu", "zhouri">>

DaysPerWeek == 7

generateWeeklyMealPlan_Unfiltered(recipes, preferences, startDate) ==
    IF startDate # None /\ startDate[1] = "invalid"
    THEN {}
    ELSE {[preferences |-> preferences,
           dailyPlans |-> [i \in 1..DaysPerWeek |->
                              [day |-> daysOfWeek[i], meals |-> m[i]]]] :
          m \in [1..DaysPerWeek -> generateDailyMealPlan(recipes, preferences)]}

\* every weekly plan generateWeeklyMealPlan can return; the empty set when
\* it throws (toISOString on an invalid start date)
generateWeeklyMealPlan(recipes, preferences, startDate) ==
    LET suitableRecipes == filterRecipesByPreferences(recipes, preferences)
        daily == generateDailyMealPlan(suitableRecipes, preferences)
    IN IF startDate # None /\ startDate[1] = "invalid"
       THEN {}
       ELSE {[preferences |-> preferences,
              dailyPlans |-> [i \in 1..DaysPerWeek |->
                                 [day |-> daysOfWeek[i], meals |-> m[i]]]] :
             m \in [1..DaysPerWeek -> daily]}

validateMealPlanPreferences(preferences) ==
    (IF preferences.numberOfPeople <= 0
     THEN <<"Number of people must be greater than 0">> ELSE <<>>)
    \o (IF preferences.numberOfPeople > 20
        THEN <<"Number of people cannot exceed 20">> ELSE <<>>)

MealsOf(mealPlan) ==
    UNION {Range(mealPlan.dailyPlans[i].meals) :
           i \in 1..Len(mealPlan.dailyPlans)}

RECURSIVE SumLen(_, _)
SumLen(dailyPlans, i) ==
    IF i > Len(dailyPlans) THEN 0
    ELSE Len(dailyPlans[i].meals) + SumLen(dailyPlans, i + 1)

----------------------------------------------------------------------------
(* Ingredient amounts and recipe scaling (get_recipe_details)              *)
(*                                                                         *)
(* An amount is a text whose characters are the digits "0".."9", ".",     *)
(* " ", "/" and one pinyin syllable per Chinese character:                 *)
(*   ke 克  bei 杯  shao 勺  ge 个  shiliang 适量  shaoxu 少许  ban 半       *)
(* A number is held in hundredths where the source rounds to two decimal   *)
(* places; parseFloat of a decimal literal is the fraction num / den.      *)

MaxServings == 4          \* largest servings of a recipe that is scaled
MaxTargetServings == 4    \* largest targetServings drawn

Digits == <<"0", "1", "2", "3", "4", "5", "6", "7", "8", "9">>

IsDigit(c) == Includes(Digits, c)

DigitValue(c) == CHOOSE d \in 0..9 : Digits[d + 1] = c

\* \s of the regular expression, on the characters of the model
IsSpace(c) == c = " "

\* length of the longest run of characters satisfying the digit test that
\* starts at position from (the greedy \d+)
RECURSIVE DigitRun(_, _)
DigitRun(text, from) ==
    IF from <= Len(text) /\ IsDigit(text[from])
    THEN 1 + DigitRun(text, from + 1)
    ELSE 0

RECURSIVE SpaceRun(_, _)
SpaceRun(text, from) ==
    IF from <= Len(text) /\ IsSpace(text[from])
    THEN 1 + SpaceRun(text, from + 1)
    ELSE 0

RECURSIVE Pow10(_)
Pow10(n) == IF n = 0 THEN 1 ELSE 10 * Pow10(n - 1)

\* the value of a run of digits read as a decimal integer
RECURSIVE DigitsValue(_)
DigitsValue(ds) ==
    IF ds = <<>> THEN 0
    ELSE 10 * DigitsValue(SubSeq(ds, 1, Len(ds) - 1)) + DigitValue(ds[Len(ds)])

\* amount.match(/^(\d+(?:\.\d+)?)\s*(.*)$/): None when there is no match,
\* else Some of the captured number (parseFloat of group 1, as num / den) and
\* the captured unit (group 2, the text after the number and any whitespace)
NumericMatch(amount) ==
    LET whole == DigitRun(amount, 1)
        frac == IF whole + 1 <= Len(amount) /\ amount[whole + 1] = "."
                THEN DigitRun(amount, whole + 2)
                ELSE 0
        numLen == IF frac > 0 THEN whole + 1 + frac ELSE whole
        spaces == SpaceRun(amount, numLen + 1)
    IN  IF whole = 0 THEN None
        ELSE Some([num |-> DigitsValue(SubSeq(amount, 1, whole)) * Pow10(frac)
                           + DigitsValue(SubSeq(amount, whole + 2, whole + 1 + frac)),
                   den |-> Pow10(frac),
                   unit |-> SubSeq(amount, numLen + spaces + 1, Len(amount))])

RECURSIVE NatToText(_)
NatToText(n) ==
    IF n < 10 THEN <<Digits[n + 1]>>
    ELSE NatToText(n \div 10) \o <<Digits[(n % 10) + 1]>>

\* `${roundedNum}` for roundedNum = hundredths / 100: Number-to-string prints
\* the shortest decimal, so no trailing zeros and no "." for an integer
NumberToText(hundredths) ==
    LET whole == hundredths \div 100
        frac == hundredths % 100
    IN  NatToText(whole) \o
        (IF frac = 0 THEN <<>>
         ELSE IF frac % 10 = 0 THEN <<".", Digits[(frac \div 10) + 1]>>
         ELSE <<".", Digits[(frac \div 10) + 1], Digits[(frac % 10) + 1]>>)

\* the four special cases of the source: 适量, 少许, 一点, 若干
specialCases == {<<"shi", "liang">>, <<"shao", "xu">>, <<"yi", "dian">>, <<"ruo", "gan">>}

\* mutant: the scale factor is not applied
scaleIngredientAmount_Unscaled(amount, targetServings, servings) ==
    LET m == NumericMatch(amount)
    IN  IF m # None
        THEN NumberToText(MathRound(m[1].num * 100, m[1].den)) \o m[1].unit
        ELSE amount

\* the branches of scaleIngredientAmount, given the result of the match;
\* scaleFactor = targetServings / servings is carried as its two terms
ScaleMatched(numericMatch, amount, targetServings, servings) ==
    IF numericMatch # None
    THEN NumberToText(MathRound(numericMatch[1].num * targetServings * 100,
                                numericMatch[1].den * servings))
         \o numericMatch[1].unit
    ELSE IF \E special \in specialCases : TextIncludes(amount, special)
    THEN amount
    ELSE amount

scaleIngredientAmount(amount, targetServings, servings) ==
    ScaleMatched(NumericMatch(amount), amount, targetServings, servings)

scaleRecipeIngredients(recipe, targetServings) ==
    [recipe EXCEPT
        !.servings = targetServings,
        !.ingredients =
            [i \in 1..Len(recipe.ingredients) |->
                [recipe.ingredients[i] EXCEPT
                    !.amount = scaleIngredientAmount(recipe.ingredients[i].amount,
                                                     targetServings, recipe.servings)]]]

----------------------------------------------------------------------------
(* Shopping lists: shoppingListUtils                                       *)
(*                                                                         *)
(* Shopping categories: shucai 蔬菜  shuiguo 水果  roulei 肉类  haixian 海鲜  *)
(*   dannai 蛋奶  zhushi 主食  tiaoliao 调料  lengdongshipin 冷冻食品         *)
(*   guantou 罐头  yinpin 饮品  lingshi 零食  qita 其他                      *)
(* Priorities: gao 高  zhong 中  di 低                                      *)
(* Where two characters of the keyword tables share a syllable, a digit    *)
(* tells them apart: bo 卜 bo2 菠, jiao 角 jiao2 蕉 jiao3 椒, yang 洋 yang2 羊, *)
(* you 油 you2 鱿, jiu 韭 jiu2 酒, suan 蒜 suan2 酸, jiang 姜 jiang2 酱,       *)
(* li 梨, tang 糖, bei 贝 (the unit 杯 occurs in amounts only).             *)

MaxShoppingRecipes == 3    \* recipes handed to one shopping list
MaxPeople == 4             \* largest numberOfPeople of a shopping list

categoryKeywords ==
    <<[category |-> "shucai",
       keywords |-> {<<"bai", "cai">>, <<"luo", "bo">>, <<"tu", "dou">>,
                     <<"fan", "qie">>, <<"huang", "gua">>, <<"qie", "zi">>,
                     <<"dou", "jiao">>, <<"bo2", "cai">>, <<"jiu", "cai">>,
                     <<"qin", "cai">>, <<"yang", "cong">>, <<"da", "suan">>,
                     <<"sheng", "jiang">>}],
      [category |-> "shuiguo",
       keywords |-> {<<"ping", "guo">>, <<"xiang", "jiao2">>, <<"cheng", "zi">>,
                     <<"li">>, <<"pu", "tao">>, <<"cao", "mei">>,
                     <<"xi", "gua">>, <<"ning", "meng">>}],
      [category |-> "roulei",
       keywords |-> {<<"zhu", "rou">>, <<"niu", "rou">>, <<"yang2", "rou">>,
                     <<"ji", "rou">>, <<"ya", "rou">>, <<"pai", "gu">>,
                     <<"rou", "si">>, <<"rou", "pian">>}],
      [category |-> "haixian",
       keywords |-> {<<"yu">>, <<"xia">>, <<"xie">>, <<"bei">>, <<"you2", "yu">>,
                     <<"dai", "yu">>, <<"huang", "yu">>, <<"lu", "yu">>}],
      [category |-> "dannai",
       keywords |-> {<<"ji", "dan">>, <<"ya", "dan">>, <<"niu", "nai">>,
                     <<"suan2", "nai">>, <<"nai", "lao">>, <<"huang", "you">>}],
      [category |-> "zhushi",
       keywords |-> {<<"da", "mi">>, <<"mian", "fen">>, <<"mian", "tiao">>,
                     <<"man", "tou">>, <<"mian", "bao">>, <<"tu", "dou">>}],
      [category |-> "tiaoliao",
       keywords |-> {<<"yan">>, <<"tang">>, <<"cu">>, <<"jiang2", "you">>,
                     <<"liao", "jiu2">>, <<"hu", "jiao3">>, <<"ba", "jiao">>,
                     <<"gui", "pi">>, <<"hua", "jiao3">>, <<"la", "jiao3">>}],
      [category |-> "lengdongshipin",
       keywords |-> {<<"leng", "dong">>, <<"su", "dong">>}],
      [category |-> "guantou",
       keywords |-> {<<"guan", "zhuang">>, <<"guan", "tou">>}],
      [category |-> "yinpin",
       keywords |-> {<<"cha">>, <<"ka", "fei">>, <<"guo", "zhi">>, <<"qi", "shui">>}],
      [category |-> "lingshi",
       keywords |-> {<<"bing", "gan">>, <<"shu", "pian">>, <<"jian", "guo">>}],
      [category |-> "qita", keywords |-> {}]>>

\* the last category of the table one of whose keywords the name contains
categorizeIngredient_LastMatch(ingredientName) ==
    LET hits == {i \in 1..Len(categoryKeywords) :
                    \E keyword \in categoryKeywords[i].keywords :
                        TextIncludes(ingredientName, keyword)}
    IN  IF hits = {} THEN "qita"
        ELSE categoryKeywords[CHOOSE i \in hits : \A j \in hits : i >= j].category

\* the first category, in the order of the table, one of whose keywords the
\* name contains
categorizeIngredient(ingredientName) ==
    LET hits == {i \in 1..Len(categoryKeywords) :
                    \E keyword \in categoryKeywords[i].keywords :
                        TextIncludes(ingredientName, keyword)}
    IN  IF hits = {} THEN "qita"
        ELSE categoryKeywords[CHOOSE i \in hits : \A j \in hits : i <= j].category

priceRanges ==
    [shucai |-> <<2, 8>>, shuiguo |-> <<5, 15>>, roulei |-> <<15, 40>>,
     haixian |-> <<20, 60>>, dannai |-> <<3, 12>>, zhushi |-> <<2, 10>>,
     tiaoliao |-> <<1, 8>>, lengdongshipin |-> <<8, 25>>, guantou |-> <<5, 15>>,
     yinpin |-> <<3, 12>>, lingshi |-> <<5, 20>>, qita |-> <<2, 15>>]

estimatePrice(ingredientName, category) ==
    MathRound(priceRanges[category][1] + priceRanges[category][2], 2)

\* 盐, 油, 米, 面, 蛋, 奶
highPriorityItems == {<<"yan">>, <<"you">>, <<"mi">>, <<"mian">>, <<"dan">>, <<"nai">>}

determinePriority(ingredientName, category) ==
    IF \E item \in highPriorityItems : TextIncludes(ingredientName, item) THEN "gao"
    ELSE IF category = "lingshi" \/ category = "yinpin" THEN "di"
    ELSE "zhong"

\* mutant: quantities with the same unit are joined like any others
combineQuantities_NeverSums(qty1, qty2) == qty1 \o <<" ", "+", " ">> \o qty2

\* the branches of combineQuantities, given the results of the two matches
CombineMatched(num1Match, num2Match, qty1, qty2) ==
    IF /\ num1Match # None
       /\ num2Match # None
       /\ num1Match[1].unit = num2Match[1].unit
    THEN NumberToText(MathRound(100 * (num1Match[1].num * num2Match[1].den
                                       + num2Match[1].num * num1Match[1].den),
                                num1Match[1].den * num2Match[1].den))
         \o num1Match[1].unit
    ELSE qty1 \o <<" ", "+", " ">> \o qty2

combineQuantities(qty1, qty2) ==
    CombineMatched(NumericMatch(qty1), NumericMatch(qty2), qty1, qty2)

\* every (recipe, ingredient) pair in the order the two nested forEach loops
\* of consolidateIngredients visit them
RECURSIVE Contributions(_)
Contributions(recipes) ==
    IF recipes = <<>> THEN <<>>
    ELSE [i \in 1..Len(Head(recipes).ingredients) |->
             [recipe |-> Head(recipes), ingredient |-> Head(recipes).ingredients[i]]]
         \o Contributions(Tail(recipes))

\* the Map of consolidateIngredients is the sequence of its entries
\* [key, item] in insertion order; item ids (time stamp and random suffix),
\* notes, recipe names and alternatives are not carried
RECURSIVE ConsolidateFrom(_, _, _, _)
ConsolidateFrom(ingredientMap, contributions, numberOfPeople, shouldConsolidate) ==
    IF contributions = <<>> THEN ingredientMap
    ELSE
        LET recipe == Head(contributions).recipe
            ingredient == Head(contributions).ingredient
            \* shoppingListUtils has its own scaleIngredientAmount, with the
            \* same regular expression and rounding
            scaledAmount == scaleIngredientAmount(ingredient.amount,
                                                  numberOfPeople, recipe.servings)
            category == categorizeIngredient(ingredient.name)
            key == IF shouldConsolidate THEN ingredient.name
                   ELSE ingredient.name \o <<"_", recipe.id>>
            at == {i \in 1..Len(ingredientMap) : ingredientMap[i].key = key}
            updated ==
                IF at # {}
                THEN LET i == CHOOSE j \in at : TRUE
                         existingItem == ingredientMap[i].item
                     IN  [ingredientMap EXCEPT ![i].item =
                            [existingItem EXCEPT
                                !.quantity = IF shouldConsolidate
                                             THEN combineQuantities(existingItem.quantity,
                                                                    scaledAmount)
                                             ELSE scaledAmount,
                                !.recipeIds = Append(existingItem.recipeIds, recipe.id)]]
                ELSE Append(ingredientMap,
                        [key |-> key,
                         item |-> [name |-> ingredient.name,
                                   category |-> category,
                                   quantity |-> scaledAmount,
                                   estimatedPrice |-> estimatePrice(ingredient.name, category),
                                   priority |-> determinePriority(ingredient.name, category),
                                   recipeIds |-> <<recipe.id>>,
                                   isPurchased |-> FALSE]])
        IN  ConsolidateFrom(updated, Tail(contributions), numberOfPeople, shouldConsolidate)

consolidateIngredients(recipes, numberOfPeople, shouldConsolidate) ==
    LET ingredientMap == ConsolidateFrom(<<>>, Contributions(recipes),
                                         numberOfPeople, shouldConsolidate)
    IN  [i \in 1..Len(ingredientMap) |-> ingredientMap[i].item]

\* the names of the model (ingredients and recipes) in the order of
\* localeCompare(.., 'zh-CN'), the pinyin collation:
\* 白菜 炒白菜 大米 宫保鸡丁 红烧肉 花生米 鸡蛋 鸡肉 土豆 盐 蒸蛋 猪肉
collation ==
    <<<<"bai", "cai">>, <<"chao", "bai", "cai">>, <<"da", "mi">>,
      <<"gong", "bao", "ji", "ding">>, <<"hong", "shao", "rou">>,
      <<"hua", "sheng", "mi">>, <<"ji", "dan">>, <<"ji", "rou">>,
      <<"tu", "dou">>, <<"yan">>,
      <<"zheng", "dan">>, <<"zhu", "rou">>>>

\* a.localeCompare(b, 'zh-CN') < 0, = 0, > 0 as -1, 0, 1
localeCompare(a, b) ==
    LET rank(n) == CHOOSE i \in 1..Len(collation) : collation[i] = n
    IN  IF rank(a) < rank(b) THEN -1 ELSE IF rank(a) > rank(b) THEN 1 ELSE 0

\* Array.prototype.sort by name: stable, so items of one name keep their order
SortByName(items) ==
    LET before(i) == {j \in 1..Len(items) :
                        \/ localeCompare(items[j].name, items[i].name) < 0
                        \/ (localeCompare(items[j].name, items[i].name) = 0 /\ j < i)}
    IN  [k \in 1..Len(items) |->
            items[CHOOSE i \in 1..Len(items) : Cardinality(before(i)) = k - 1]]

RECURSIVE SumPrices(_)
SumPrices(items) ==
    IF items = <<>> THEN 0 ELSE Head(items).estimatedPrice + SumPrices(Tail(items))

categoryOrder ==
    <<"shucai", "shuiguo", "roulei", "haixian", "dannai", "zhushi", "tiaoliao",
      "lengdongshipin", "guantou", "yinpin", "lingshi", "qita">>

\* one section per category that has items, sorted by the index of the
\* category in categoryOrder, the items of a section sorted by name
RECURSIVE SectionsFrom(_, _)
SectionsFrom(items, k) ==
    IF k > Len(categoryOrder) THEN <<>>
    ELSE LET inCategory == SelectSeq(items, LAMBDA it : it.category = categoryOrder[k])
         IN  (IF inCategory = <<>> THEN <<>>
              ELSE <<[category |-> categoryOrder[k],
                      items |-> SortByName(inCategory),
                      totalEstimatedCost |-> SumPrices(inCategory)]>>)
             \o SectionsFrom(items, k + 1)

groupItemsByCategory(items) == SectionsFrom(items, 1)

RECURSIVE calculateTotalCost(_)
calculateTotalCost(sections) ==
    IF sections = <<>> THEN 0
    ELSE Head(sections).totalEstimatedCost + calculateTotalCost(Tail(sections))

RECURSIVE CountItems(_)
CountItems(sections) ==
    IF sections = <<>> THEN 0
    ELSE Len(Head(sections).items) + CountItems(Tail(sections))

\* the list without its id, name and time stamps; consolidateItems and
\* excludeCategories are optional in the request
\* the sections that are left when excludeCategories is given
FilterSections(sections, excludeCategories) ==
    IF excludeCategories # None
    THEN SelectSeq(sections,
            LAMBDA section : ~ Includes(excludeCategories[1], section.category))
    ELSE sections

\* the ShoppingList object built from the sections
ShoppingListOf(filteredSections, request) ==
    [people |-> request.numberOfPeople,
     sections |-> filteredSections,
     totalItems |-> CountItems(filteredSections),
     totalEstimatedCost |-> IF request.includePriceEstimates
                            THEN Some(calculateTotalCost(filteredSections))
                            ELSE None]

generateShoppingListFromRecipes(recipes, request) ==
    ShoppingListOf(
        FilterSections(
            groupItemsByCategory(
                consolidateIngredients(recipes, request.numberOfPeople,
                    IF request.consolidateItems = None THEN TRUE
                    ELSE request.consolidateItems[1])),
            request.excludeCategories),
        request)

----------------------------------------------------------------------------
(* Tool recommend_meal_plan *)

DietaryRestrictionEnum ==
    {"sushi", "chunsushi", "wufuzhi", "diyan", "ditang", "dizhi", "gaodanbai",
     "wujianguo", "wuhaixian", "wuruzhipin"}

\* RecommendMealPlanInput.parse succeeds
RecommendMealPlanInputValid(in) ==
    /\ in.preferences.numberOfPeople >= 1
    /\ in.preferences.numberOfPeople <= 20
    /\ in.preferences.dietaryRestrictions # None =>
          Range(in.preferences.dietaryRestrictions[1]) \subseteq DietaryRestrictionEnum
    /\ in.planDuration # None =>
          in.planDuration[1] >= 1 /\ in.planDuration[1] <= 14

\* the recipes of all meals of the plan, day after day
RECURSIVE PlanRecipes(_, _)
PlanRecipes(dailyPlans, i) ==
    IF i > Len(dailyPlans) THEN <<>>
    ELSE [k \in 1..Len(dailyPlans[i].meals) |-> dailyPlans[i].meals[k].recipe]
         \o PlanRecipes(dailyPlans, i + 1)

\* the request of a meal plan has no excludeCategories
generateShoppingListFromMealPlan(mealPlan, request) ==
    generateShoppingListFromRecipes(
        PlanRecipes(mealPlan.dailyPlans, 1),
        [numberOfPeople |-> request.numberOfPeople,
         consolidateItems |-> request.consolidateItems,
         includePriceEstimates |-> request.includePriceEstimates,
         excludeCategories |-> None])

\* mutant: an empty catalog is not reported
NoRecipesAvailable_Unchecked(allRecipes) == FALSE

\* allRecipes.length === 0
NoRecipesAvailable(allRecipes) == Len(allRecipes) = 0

\* every [response, calls] the handler can resolve to on the given catalog
handleRecommendMealPlan(allRecipes, in) ==
    IF ~ RecommendMealPlanInputValid(in)
    THEN {[response |-> ErrorResponse("Failed to generate meal plan", "ZodError"),
           calls |-> <<"parse">>]}
    ELSE
    LET planDuration == IF in.planDuration = None THEN 7 ELSE in.planDuration[1]
        includeShoppingList ==
            IF in.includeShoppingList = None THEN TRUE ELSE in.includeShoppingList[1]
        consolidate ==
            IF in.consolidateIngredients = None THEN TRUE
            ELSE in.consolidateIngredients[1]
        errors == validateMealPlanPreferences(in.preferences)
        plans == generateWeeklyMealPlan(allRecipes, in.preferences, in.startDate)
        shoppingListRequest ==
            [numberOfPeople |-> in.preferences.numberOfPeople,
             consolidateItems |-> Some(consolidate),
             includePriceEstimates |-> in.preferences.budgetLevel # None]
    IN IF Len(errors) > 0
       THEN {[response |-> ErrorResponse("Invalid meal plan preferences", errors),
              calls |-> <<"parse", "validateMealPlanPreferences">>]}
       ELSE IF NoRecipesAvailable(allRecipes)
       THEN {[response |-> ErrorResponse("No recipes available",
                                         "Recipe database is empty"),
              calls |-> <<"parse", "validateMealPlanPreferences",
                          "getAllRecipes">>]}
       ELSE IF plans = {}
       THEN {[response |-> ErrorResponse("Failed to generate meal plan",
                                         "Invalid time value"),
              calls |-> <<"parse", "validateMealPlanPreferences",
                          "getAllRecipes", "generateWeeklyMealPlan",
                          "filterRecipesByPreferences">>]}
       ELSE {[response |->
                 SuccessResponse(
                     [text |-> "Generated meal plan",
                      days |-> planDuration,
                      people |-> in.preferences.numberOfPeople,
                      meals |-> SumLen(mealPlan.dailyPlans, 1)],
                     [mealPlan |-> mealPlan,
                      shoppingList |->
                          IF includeShoppingList
                          THEN Some(generateShoppingListFromMealPlan(
                                        mealPlan, shoppingListRequest))
                          ELSE None]),
              calls |-> <<"parse", "validateMealPlanPreferences",
                          "getAllRecipes", "generateWeeklyMealPlan",
                          "filterRecipesByPreferences", "generateDailyMealPlan",
                          "calculateMealPlanStats">>
                        \o (IF includeShoppingList
                            THEN <<"generateShoppingListFromMealPlan">>
                            ELSE <<>>)] :
             mealPlan \in plans}

\* budget levels jingji 经济, zhongdeng 中等, gaodang 高档
NoMealPlanPreferences ==
    [numberOfPeople |-> 2, dietaryRestrictions |-> None,
     preferredCategories |-> None, excludedCategories |-> None,
     budgetLevel |-> None, cookingSkillLevel |-> None, timeConstraints |-> None]

MealPlanPreferencesSet ==
    {NoMealPlanPreferences,
     [NoMealPlanPreferences EXCEPT
        !.numberOfPeople = 4, !.dietaryRestrictions = Some(<<"sushi">>),
        !.budgetLevel = Some("jingji")],
     [NoMealPlanPreferences EXCEPT
        !.dietaryRestrictions = Some(<<"wuhaixian", "sushi">>),
        !.preferredCategories = Some(<<"zaocan">>),
        !.excludedCategories = Some(<<"sucai">>),
        !.cookingSkillLevel = Some("zhongji")],
     [NoMealPlanPreferences EXCEPT
        !.numberOfPeople = 3, !.dietaryRestrictions = Some(<<>>),
        !.preferredCategories = Some(<<"tianpin">>),
        !.cookingSkillLevel = Some("chuxuezhe")],
     [NoMealPlanPreferences EXCEPT !.numberOfPeople = 21]}

\* a ceiling of 10 minutes of preparation and 30 minutes of cooking; no nuts
ConstrainedMealPlanPreferences ==
    {[NoMealPlanPreferences EXCEPT
        !.excludedCategories = Some(<<"sucai">>),
        !.timeConstraints = Some([maxPrepTime |-> Some(Minutes(10)),
                                  maxCookTime |-> Some(Minutes(30))])],
     [NoMealPlanPreferences EXCEPT
        !.dietaryRestrictions = Some(<<"wujianguo">>),
        !.excludedCategories = Some(<<"sucai">>)]}

\* a beginner, who prefers meat dishes or states a budget
BeginnerMealPlanPreferences ==
    {[NoMealPlanPreferences EXCEPT
        !.preferredCategories = Some(<<"huncai">>),
        !.cookingSkillLevel = Some("chuxuezhe")],
     [NoMealPlanPreferences EXCEPT
        !.numberOfPeople = 4,
        !.budgetLevel = Some("zhongdeng"),
        !.cookingSkillLevel = Some("chuxuezhe")]}

\* the shopping list is drawn with the preferences that leave one candidate
\* per meal slot, so that the plans stay few
MealPlanInputs ==
    [preferences : MealPlanPreferencesSet,
     startDate : {None, Some("valid"), Some("invalid")},
     planDuration : {None, Some(1), Some(14)},
     includeShoppingList : {Some(FALSE)},
     consolidateIngredients : {None}]
    \cup
    [preferences : ConstrainedMealPlanPreferences,
     startDate : {None},
     planDuration : {None},
     includeShoppingList : {Some(FALSE)},
     consolidateIngredients : {None}]
    \cup
    [preferences : BeginnerMealPlanPreferences,
     startDate : {None},
     planDuration : {None},
     includeShoppingList : {None, Some(TRUE)},
     consolidateIngredients : {None, Some(FALSE)}]

HandleRecommendMealPlan ==
    /\ Idle
    /\ \E in \in MealPlanInputs :
         \E out \in handleRecommendMealPlan(getAllRecipes, in) :
            /\ input' = Some([tool |-> "recommend_meal_plan", args |-> in])
            /\ response' = Some(out.response)
            /\ calls' = out.calls
    /\ UNCHANGED catalog

----------------------------------------------------------------------------
(* Tools get_all_recipes and get_recipes_by_category                       *)
(*                                                                         *)
(* Categories also: banchengpin 半成品  tiaoweiliao 调味料  yinpin 饮品.       *)
(* Every outcome of these handlers is [response, calls, recipes]: recipes  *)
(* is the array of the RecipeDataManager after the call.                   *)

\* the RecipeCategory enum in the order of localeCompare(.., 'zh-CN'):
\* 半成品 荤菜 水产 素菜 汤羹 甜品 调味料 饮品 早餐 主食
categoryCollation ==
    <<"banchengpin", "huncai", "shuichan", "sucai", "tanggeng", "tianpin",
      "tiaoweiliao", "yinpin", "zaocan", "zhushi">>

RecipeCategoryEnum == Range(categoryCollation)

difficultyOrder == [jiandan |-> 1, zhongdeng |-> 2, kunnan |-> 3]

\* the comparison of sortRecipes before the sort order is applied
Comparison(a, b, sortBy) ==
    LET rank(c) == CHOOSE i \in 1..Len(categoryCollation) : categoryCollation[i] = c
    IN  CASE sortBy = "name" -> localeCompare(a.name, b.name)
          [] sortBy = "category" -> rank(a.category) - rank(b.category)
          [] sortBy = "difficulty" ->
                difficultyOrder[a.difficulty] - difficultyOrder[b.difficulty]
          [] sortBy = "prepTime" ->
                parseTimeInMinutes(a.prepTime) - parseTimeInMinutes(b.prepTime)
          [] sortBy = "cookTime" ->
                parseTimeInMinutes(a.cookTime) - parseTimeInMinutes(b.cookTime)
          [] sortBy = "dateAdded" -> a.dateAdded - b.dateAdded
          [] OTHER -> localeCompare(a.name, b.name)

\* [...recipes].sort(..): a sorted copy; the sort is stable
sortRecipes(recipes, sortBy, sortOrder) ==
    LET cmp(i, j) == IF sortOrder = "desc"
                     THEN 0 - Comparison(recipes[i], recipes[j], sortBy)
                     ELSE Comparison(recipes[i], recipes[j], sortBy)
        before(i) == {j \in 1..Len(recipes) :
                        cmp(j, i) < 0 \/ (cmp(j, i) = 0 /\ j < i)}
    IN  [k \in 1..Len(recipes) |->
            recipes[CHOOSE i \in 1..Len(recipes) : Cardinality(before(i)) = k - 1]]

\* Array.prototype.slice(start, end) with 0 <= start
Slice(s, start, end) == SubSeq(s, start + 1, Min(end, Len(s)))

\* GetAllRecipesInput.parse succeeds
GetAllRecipesInputValid(in) ==
    /\ in.page # None => in.page[1] >= 1
    /\ in.limit # None => in.limit[1] >= 1 /\ in.limit[1] <= 100
    /\ in.sortBy # None =>
          in.sortBy[1] \in {"name", "category", "difficulty", "prepTime",
                            "cookTime", "dateAdded"}
    /\ in.sortOrder # None => in.sortOrder[1] \in {"asc", "desc"}

handleGetAllRecipes(allRecipes, in) ==
    IF ~ GetAllRecipesInputValid(in)
    THEN {[response |-> ErrorResponse("Failed to retrieve recipes", "ZodError"),
           calls |-> <<"parse">>, recipes |-> allRecipes]}
    ELSE
    LET page == IF in.page = None THEN 1 ELSE in.page[1]
        limit == IF in.limit = None THEN 20 ELSE in.limit[1]
        sortBy == IF in.sortBy = None THEN "name" ELSE in.sortBy[1]
        sortOrder == IF in.sortOrder = None THEN "asc" ELSE in.sortOrder[1]
        includeDetails == IF in.includeDetails = None THEN TRUE ELSE in.includeDetails[1]
        recipes == sortRecipes(allRecipes, sortBy, sortOrder)
        totalCount == Len(recipes)
        totalPages == (totalCount + limit - 1) \div limit
        startIndex == (page - 1) * limit
        paginatedRecipes == Slice(recipes, startIndex, startIndex + limit)
        resultRecipes ==
            IF includeDetails THEN paginatedRecipes
            ELSE [i \in 1..Len(paginatedRecipes) |->
                    [paginatedRecipes[i] EXCEPT
                        !.steps = <<>>,
                        !.ingredients = Slice(paginatedRecipes[i].ingredients, 0, 3)]]
    IN  {[response |->
            SuccessResponse(
                [text |-> "Retrieved recipes", count |-> Len(resultRecipes),
                 page |-> page, totalPages |-> totalPages],
                [items |-> resultRecipes, totalCount |-> totalCount,
                 page |-> page, limit |-> limit, totalPages |-> totalPages,
                 hasNext |-> page < totalPages, hasPrevious |-> page > 1]),
          calls |-> <<"parse", "getAllRecipes", "sortRecipes">>,
          recipes |-> allRecipes]}

\* the read happens after a suspension during which the first recipe of the
\* catalog was deleted
getRecipesByCategory_AfterDelete(recipes, category) ==
    SelectSeq(SubSeq(recipes, 2, Len(recipes)), LAMBDA r : r.category = category)

\* RecipeDataManager.getRecipesByCategory: a filtered copy
getRecipesByCategory(recipes, category) ==
    SelectSeq(recipes, LAMBDA r : r.category = category)

\* the tags of the recipes, each once, in the order of first appearance
RECURSIVE TagsInOrder(_)
TagsInOrder(recipes) ==
    IF recipes = <<>> THEN <<>>
    ELSE LET earlier == TagsInOrder(SubSeq(recipes, 1, Len(recipes) - 1))
             own == IF recipes[Len(recipes)].tags = None THEN <<>>
                    ELSE recipes[Len(recipes)].tags[1]
         IN  earlier \o SelectSeq(own, LAMBDA tag : ~ Includes(earlier, tag))

\* averageServings is held in tenths
calculateCategoryStatistics(recipes) ==
    LET tags == TagsInOrder(recipes)
        count(tag) == Cardinality({i \in 1..Len(recipes) :
                        recipes[i].tags # None /\ Includes(recipes[i].tags[1], tag)})
        before(i) == {j \in 1..Len(tags) :
                        count(tags[j]) > count(tags[i])
                        \/ (count(tags[j]) = count(tags[i]) /\ j < i)}
        byCount == [k \in 1..Len(tags) |->
                      tags[CHOOSE i \in 1..Len(tags) : Cardinality(before(i)) = k - 1]]
    IN  [difficultyDistribution |->
            [d \in {"jiandan", "zhongdeng", "kunnan"} |->
                Cardinality({i \in 1..Len(recipes) : recipes[i].difficulty = d})],
         averagePrepTime |->
            formatTimeFromMinutes(MathRound(
                SumSeq([i \in 1..Len(recipes) |-> parseTimeInMinutes(recipes[i].prepTime)]),
                Len(recipes))),
         averageCookTime |->
            formatTimeFromMinutes(MathRound(
                SumSeq([i \in 1..Len(recipes) |-> parseTimeInMinutes(recipes[i].cookTime)]),
                Len(recipes))),
         averageServings |->
            MathRound(10 * SumSeq([i \in 1..Len(recipes) |-> recipes[i].servings]), Len(recipes)),
         commonTags |-> Slice(byCount, 0, 5)]

\* GetRecipesByCategoryInput.parse succeeds
GetRecipesByCategoryInputValid(in) ==
    /\ in.category \in RecipeCategoryEnum
    /\ in.limit # None => in.limit[1] >= 1 /\ in.limit[1] <= 100
    /\ in.sortBy # None =>
          in.sortBy[1] \in {"name", "difficulty", "prepTime", "cookTime", "dateAdded"}
    /\ in.sortOrder # None => in.sortOrder[1] \in {"asc", "desc"}

handleGetRecipesByCategory(allRecipes, in) ==
    IF ~ GetRecipesByCategoryInputValid(in)
    THEN {[response |-> ErrorResponse("Failed to retrieve recipes by category",
                                      "ZodError"),
           calls |-> <<"parse">>, recipes |-> allRecipes]}
    ELSE
    LET limit == IF in.limit = None THEN 50 ELSE in.limit[1]
        sortBy == IF in.sortBy = None THEN "name" ELSE in.sortBy[1]
        sortOrder == IF in.sortOrder = None THEN "asc" ELSE in.sortOrder[1]
        includeStats == IF in.includeStats = None THEN FALSE ELSE in.includeStats[1]
        recipes == sortRecipes(getRecipesByCategory(allRecipes, in.category),
                               sortBy, sortOrder)
        limitedRecipes == Slice(recipes, 0, limit)
    IN  {[response |->
            SuccessResponse(
                [text |-> "Found recipes in category", count |-> Len(limitedRecipes),
                 category |-> in.category, showing |-> Min(limit, Len(recipes)),
                 of |-> Len(recipes)],
                [category |-> in.category, recipes |-> limitedRecipes,
                 totalCount |-> Len(recipes),
                 statistics |-> IF includeStats /\ Len(recipes) > 0
                                THEN Some(calculateCategoryStatistics(recipes))
                                ELSE None]),
          calls |-> <<"parse", "getRecipesByCategory", "sortRecipes">>
                    \o (IF includeStats /\ Len(recipes) > 0
                        THEN <<"calculateCategoryStatistics">> ELSE <<>>),
          recipes |-> allRecipes]}

----------------------------------------------------------------------------
(* Tool get_recipe_details                                                 *)
(*                                                                         *)
(* The identifier is a text: a recipe id is the text of one piece <<id>>.  *)
(* sushiyouhao 素食友好  fuhandanbaizhi 富含蛋白质  qingdan 清淡               *)
(* qingdanyinshi 清淡饮食  yingyang 营养  yingyangfengfu 营养丰富              *)
(* kuaishoucai 快手菜  gaojipengrenjiqiao 高级烹饪技巧  jibenchuju 基本厨具     *)
(* tangguo 汤锅                                                             *)
(* The recipes of the model carry no cookingMethods and no                 *)
(* nutritionalInfo, both optional in the Recipe schema.                    *)

\* RecipeDataManager.getRecipeById: the catalog object itself, if any
getRecipeById(recipes, identifier) ==
    LET found == SelectSeq(recipes, LAMBDA r : <<r.id>> = identifier)
    IN  IF found = <<>> THEN None ELSE Some(Head(found))

\* exact match on the name first, then partial match
FindByName(recipes, identifier) ==
    LET exact == SelectSeq(recipes, LAMBDA r : r.name = identifier)
        partial == SelectSeq(recipes, LAMBDA r : TextIncludes(r.name, identifier))
    IN  IF exact # <<>> THEN Some(Head(exact))
        ELSE IF partial # <<>> THEN Some(Head(partial))
        ELSE None

\* every order of the elements of a sequence
Shuffles(s) ==
    {[i \in 1..Len(s) |-> s[f[i]]] :
        f \in {g \in [1..Len(s) -> 1..Len(s)] :
                 \A i, j \in 1..Len(s) : i # j => g[i] # g[j]}}

\* the outcomes of the random sort of the other recipes of the category
getRelatedRecipes(allRecipes, recipe, limit) ==
    LET categoryRecipes == getRecipesByCategory(allRecipes, recipe.category)
        otherRecipes == SelectSeq(categoryRecipes, LAMBDA r : r.id # recipe.id)
    IN  {[i \in 1..Min(limit, Len(shuffled)) |->
            [id |-> shuffled[i].id, name |-> shuffled[i].name,
             difficulty |-> shuffled[i].difficulty,
             prepTime |-> shuffled[i].prepTime,
             cookTime |-> shuffled[i].cookTime,
             servings |-> shuffled[i].servings]] :
         shuffled \in Shuffles(otherRecipes)}

analyzeNutrition(recipe) ==
    LET hasTag(tag) == recipe.tags # None /\ Includes(recipe.tags[1], tag)
        totalTime == parseTimeInMinutes(recipe.prepTime)
                     + parseTimeInMinutes(recipe.cookTime)
        dietaryInfo ==
            (IF recipe.category = "sucai" THEN <<"sushiyouhao">> ELSE <<>>)
            \o (IF recipe.category = "shuichan" THEN <<"fuhandanbaizhi">> ELSE <<>>)
            \o (IF hasTag("qingdan") THEN <<"qingdanyinshi">> ELSE <<>>)
            \o (IF hasTag("yingyang") THEN <<"yingyangfengfu">> ELSE <<>>)
            \o (IF totalTime <= 30 THEN <<"kuaishoucai">> ELSE <<>>)
    IN  [dietaryInfo |-> IF Len(dietaryInfo) > 0 THEN Some(dietaryInfo) ELSE None]

analyzeCookingRequirements(recipe) ==
    [totalActiveTime |->
        formatTimeFromMinutes(parseTimeInMinutes(recipe.prepTime)
                              + parseTimeInMinutes(recipe.cookTime)),
     difficultyReason |-> recipe.difficulty,
     skillsRequired |->
        IF recipe.difficulty = "kunnan" THEN <<"gaojipengrenjiqiao">> ELSE <<>>,
     equipmentNeeded |->
        <<"jibenchuju">>
        \o (IF recipe.category = "tanggeng" THEN <<"tangguo">> ELSE <<>>)]

\* GetRecipeDetailsInput.parse succeeds
GetRecipeDetailsInputValid(in) ==
    /\ in.searchBy # None => in.searchBy[1] \in {"id", "name"}
    /\ in.scaleServings # None =>
          in.scaleServings[1] >= 1 /\ in.scaleServings[1] <= 20

\* the catalog written back with the scaled recipe in the place of the
\* recipe that was looked up
RecipesAfterScaling_InPlace(allRecipes, recipe, finalRecipe) ==
    [i \in 1..Len(allRecipes) |->
        IF allRecipes[i].id = recipe.id THEN finalRecipe ELSE allRecipes[i]]

\* the array of the RecipeDataManager after the recipe that was looked up
\* has been scaled: the scaled recipe and its ingredients are new objects
RecipesAfterScaling(allRecipes, recipe, finalRecipe) == allRecipes

handleGetRecipeDetails(allRecipes, in) ==
    IF ~ GetRecipeDetailsInputValid(in)
    THEN {[response |-> ErrorResponse("Failed to retrieve recipe details",
                                      "ZodError"),
           calls |-> <<"parse">>, recipes |-> allRecipes]}
    ELSE
    LET searchBy == IF in.searchBy = None THEN "id" ELSE in.searchBy[1]
        includeRelated == IF in.includeRelated = None THEN FALSE
                          ELSE in.includeRelated[1]
        includeNutrition == IF in.includeNutrition = None THEN TRUE
                            ELSE in.includeNutrition[1]
        found == IF searchBy = "id" THEN getRecipeById(allRecipes, in.identifier)
                 ELSE FindByName(allRecipes, in.identifier)
        lookup == IF searchBy = "id" THEN "getRecipeById" ELSE "getAllRecipes"
    IN  IF found = None
        THEN {[response |-> ErrorResponse("Recipe not found",
                                [searchBy |-> searchBy,
                                 identifier |-> in.identifier]),
               calls |-> <<"parse", lookup>>, recipes |-> allRecipes]}
        ELSE
        LET recipe == found[1]
            scaling == in.scaleServings # None
                       /\ in.scaleServings[1] # 0
                       /\ in.scaleServings[1] # recipe.servings
            finalRecipe == IF scaling
                           THEN scaleRecipeIngredients(recipe, in.scaleServings[1])
                           ELSE recipe
            scaledForServings == IF scaling THEN in.scaleServings ELSE None
            relatedOutcomes == IF includeRelated
                               THEN {Some(related) :
                                       related \in getRelatedRecipes(allRecipes, recipe, 3)}
                               ELSE {None}
        IN  {[response |->
                SuccessResponse(
                    [text |-> "Retrieved details for recipe",
                     name |-> finalRecipe.name, scaledFor |-> scaledForServings],
                    [recipe |-> finalRecipe,
                     cookingAnalysis |-> analyzeCookingRequirements(finalRecipe),
                     scaledForServings |-> scaledForServings,
                     relatedRecipes |-> relatedRecipes,
                     nutritionalAnalysis |->
                        IF includeNutrition THEN Some(analyzeNutrition(finalRecipe))
                        ELSE None]),
              calls |-> <<"parse", lookup>>
                        \o (IF scaling THEN <<"scaleRecipeIngredients">> ELSE <<>>)
                        \o <<"analyzeCookingRequirements">>
                        \o (IF includeRelated THEN <<"getRelatedRecipes">> ELSE <<>>)
                        \o (IF includeNutrition THEN <<"analyzeNutrition">> ELSE <<>>),
              recipes |-> IF scaling
                          THEN RecipesAfterScaling(allRecipes, recipe, finalRecipe)
                          ELSE allRecipes] :
             relatedRecipes \in relatedOutcomes}

----------------------------------------------------------------------------
(* Calls of the three retrieval tools *)

\* Some(101) and Some(0) are outside the range of the schema
PageOptions == {None} \cup {Some(n) : n \in 0..MaxPage}
LimitOptions == {None, Some(101)} \cup {Some(n) : n \in 0..MaxLimit}

GetAllRecipesInputs ==
    [page : PageOptions,
     limit : LimitOptions,
     sortBy : {None, Some("category"), Some("difficulty"), Some("prepTime"),
               Some("cookTime"), Some("dateAdded"), Some("calories")},
     sortOrder : {None, Some("desc")},
     includeDetails : {None, Some(FALSE)}]

HandleGetAllRecipes ==
    /\ Idle
    /\ \E in \in GetAllRecipesInputs :
         \E out \in handleGetAllRecipes(getAllRecipes, in) :
            /\ input' = Some([tool |-> "get_all_recipes", args |-> in])
            /\ response' = Some(out.response)
            /\ calls' = out.calls
            /\ catalog' = out.recipes

\* xiaochi 小吃 is not a member of the RecipeCategory enum
GetRecipesByCategoryInputs ==
    [category : {"huncai", "sucai", "zaocan", "tanggeng", "xiaochi"},
     limit : LimitOptions,
     sortBy : {None, Some("difficulty"), Some("dateAdded"), Some("category")},
     sortOrder : {None, Some("desc")},
     includeStats : {None, Some(TRUE)}]

HandleGetRecipesByCategory ==
    /\ Idle
    /\ \E in \in GetRecipesByCategoryInputs :
         \E out \in handleGetRecipesByCategory(getAllRecipes, in) :
            /\ input' = Some([tool |-> "get_recipes_by_category", args |-> in])
            /\ response' = Some(out.response)
            /\ calls' = out.calls
            /\ catalog' = out.recipes

\* 0 and 21 are outside the range of scaleServings
ScaleServingsOptions ==
    {None, Some(21)} \cup {Some(n) : n \in 0..MaxTargetServings}

GetRecipeDetailsInputs ==
    [identifier : {<<"r1">>, <<"r2">>, <<"r9">>, <<"hong", "shao", "rou">>,
                   <<"chao">>, <<>>},
     searchBy : {None, Some("name"), Some("title")},
     includeRelated : {None, Some(TRUE)},
     includeNutrition : {None, Some(FALSE)},
     scaleServings : ScaleServingsOptions]

HandleGetRecipeDetails ==
    /\ Idle
    /\ \E in \in GetRecipeDetailsInputs :
         \E out \in handleGetRecipeDetails(getAllRecipes, in) :
            /\ input' = Some([tool |-> "get_recipe_details", args |-> in])
            /\ response' = Some(out.response)
            /\ calls' = out.calls
            /\ catalog' = out.recipes

----------------------------------------------------------------------------
(* Specification of the dish-combination tool *)

InitCombination ==
    /\ catalog \in Catalogs(MaxCatalog)
    /\ input = None
    /\ response = None
    /\ calls = <<>>

NextCombination == HandleRecommendDishCombination \/ ReturnResult

SpecCombination == InitCombination /\ [][NextCombination]_vars

----------------------------------------------------------------------------
(* Specification of the five tools of the server *)

\* a staple (主食) that carries the tag 早餐
TaggedStaple ==
    [RecipePool.r3 EXCEPT !.id = "r5", !.category = "zhushi",
                          !.tags = Some(<<"zaocan">>)]

SampleCatalogs ==
    {[i \in 1..Len(s) |-> RecipePool[s[i]]] :
        s \in {<<>>, <<"r1">>, <<"r2", "r1">>, <<"r3", "r1">>, <<"r4", "r2">>,
               <<"r1", "r4", "r3">>}}
    \cup {<<TaggedStaple, RecipePool.r4>>}

Init ==
    /\ catalog \in SampleCatalogs
    /\ input = None
    /\ response = None
    /\ calls = <<>>

Next ==
    \/ HandleRecommendDishCombination
    \/ HandleRecommendMealPlan
    \/ HandleGetAllRecipes
    \/ HandleGetRecipesByCategory
    \/ HandleGetRecipeDetails
    \/ ReturnResult

Spec == Init /\ [][Next]_vars

----------------------------------------------------------------------------
(* The call being served and its result *)

CombinationCall ==
    /\ input # None
    /\ response # None
    /\ input[1].tool = "recommend_dish_combination"

MealPlanCall ==
    /\ input # None
    /\ response # None
    /\ input[1].tool = "recommend_meal_plan"

Args == input[1].args
Result == response[1]

CombinationSucceeded == CombinationCall /\ Result.success
MealPlanSucceeded == MealPlanCall /\ Result.success

\* minDishes / maxDishes as the handler reads them (defaults 3 and 6)
RequestedMinDishes == IF Args.minDishes = None THEN 3 ELSE Args.minDishes[1]
RequestedMaxDishes == IF Args.maxDishes = None THEN 6 ELSE Args.maxDishes[1]

Dishes == Result.data.combination.dishes
DishIds == {Dishes[i].recipe.id : i \in 1..Len(Dishes)}

IncludeIds ==
    IF Args.includeRecipeIds = None THEN {} ELSE Range(Args.includeRecipeIds[1])
ExcludeIds ==
    IF Args.excludeRecipeIds = None THEN {} ELSE Range(Args.excludeRecipeIds[1])

\* the filtered set of the call being served
CombinationFiltered ==
    filterRecipesByCombinationPreferences(catalog, Args.preferences)
MealPlanFiltered == filterRecipesByPreferences(catalog, Args.preferences)

FilterRan == Includes(calls, "filterRecipesByPreferences")

----------------------------------------------------------------------------
(* Claims *)

\* C1: a recommend_dish_combination request with minDishes > maxDishes is
\* answered with a failure, and neither generateDishCombination nor the
\* selection is entered.
C1_InvalidDishCountsRejected ==
    (CombinationCall /\ RequestedMinDishes > RequestedMaxDishes) =>
        /\ Result.success = FALSE
        /\ ~ Includes(calls, "generateDishCombination")
        /\ ~ Includes(calls, "selectDishesForCombination")

C1_Witness ==
    /\ CombinationCall
    /\ RequestedMinDishes > RequestedMaxDishes
    /\ Len(catalog) > 0
    /\ Result.success = FALSE
    /\ Result.error = "Invalid dish count constraints"

\* C2: when the preference filter of either recommendation tool leaves no
\* recipe, the tool answers with a failure (success = false).
C2_EmptyFilterIsDomainError ==
    /\ (CombinationCall /\ FilterRan /\ Len(CombinationFiltered) = 0) =>
          Result.success = FALSE
    /\ (MealPlanCall /\ FilterRan /\ Len(MealPlanFiltered) = 0) =>
          Result.success = FALSE

\* C3: a returned combination has at most maxDishes dishes.
C3_AtMostMaxDishes ==
    CombinationSucceeded => Len(Dishes) <= RequestedMaxDishes

\* C4: a returned combination has at least minDishes dishes, unless every
\* filtered recipe that is not excluded has been selected.
C4_AtLeastMinUnlessExhausted ==
    CombinationSucceeded =>
        \/ Len(Dishes) >= RequestedMinDishes
        \/ \A i \in 1..Len(CombinationFiltered) :
              \/ CombinationFiltered[i].id \in ExcludeIds
              \/ CombinationFiltered[i].id \in DishIds

C4_Witness ==
    /\ CombinationSucceeded
    /\ Len(Dishes) >= 1
    /\ Len(Dishes) < RequestedMinDishes
    /\ Len(CombinationFiltered) > Len(Dishes)

\* C5: no recipe id appears twice in a returned combination.
C5_NoRecipeTwice ==
    CombinationSucceeded =>
        \A i, j \in 1..Len(Dishes) :
            i # j => Dishes[i].recipe.id # Dishes[j].recipe.id

C5_Witness ==
    /\ CombinationSucceeded
    /\ Len(Dishes) >= 2
    /\ Args.includeRecipeIds # None
    /\ \E i, j \in 1..Len(Args.includeRecipeIds[1]) :
          /\ i # j
          /\ Args.includeRecipeIds[1][i] = Args.includeRecipeIds[1][j]
          /\ Args.includeRecipeIds[1][i] \in DishIds

\* the response has a field that carries a warning
HasPartialResultWarning ==
    \E f \in {"warning", "warnings", "partialResultWarning"} :
        \/ f \in DOMAIN Result
        \/ f \in DOMAIN Result.data
        \/ f \in DOMAIN Result.data.combination

\* C6: a combination returned with fewer than minDishes dishes comes with a
\* PartialResultWarning.
C6_PartialResultWarning ==
    (CombinationSucceeded /\ Len(Dishes) < RequestedMinDishes) =>
        HasPartialResultWarning

\* C7: every recipe of the catalog named in includeRecipeIds is in the
\* returned combination, ahead of every dish that is not named there.
C7_IncludedAlwaysFirst ==
    CombinationSucceeded =>
        \A id \in IncludeIds \cap IdsOf(catalog) :
            \E i \in 1..Len(Dishes) :
                /\ Dishes[i].recipe.id = id
                /\ \A j \in 1..(i - 1) : Dishes[j].recipe.id \in IncludeIds

Vegetarian(preferences) ==
    /\ preferences.dietaryRestrictions # None
    /\ Includes(preferences.dietaryRestrictions[1], "sushi")

\* C9: with the vegetarian restriction no recipe of the filtered set, no
\* recommended dish and no planned meal has the meat category, in
\* dish-combination mode and in meal-plan mode.
C9_VegetarianExcludesMeat ==
    /\ (CombinationCall /\ Vegetarian(Args.preferences)) =>
          /\ \A i \in 1..Len(CombinationFiltered) :
                CombinationFiltered[i].category # "huncai"
          /\ Result.success =>
                \A i \in 1..Len(Dishes) : Dishes[i].recipe.category # "huncai"
    /\ (MealPlanCall /\ Vegetarian(Args.preferences)) =>
          /\ \A i \in 1..Len(MealPlanFiltered) :
                MealPlanFiltered[i].category # "huncai"
          /\ Result.success =>
                \A meal \in MealsOf(Result.data.mealPlan) :
                    meal.recipe.category # "huncai"

C9_Witness ==
    /\ CombinationSucceeded
    /\ Vegetarian(Args.preferences)
    /\ Len(Dishes) >= 1
    /\ \E i \in 1..Len(catalog) :
          catalog[i].category = "huncai" /\ catalog[i].id \in IncludeIds

----------------------------------------------------------------------------
(* Applications of scaleRecipeIngredients *)

\* dami 大米; amounts 200克, 1.5杯, "2 勺", 1/2杯, 适量, 少许, 半杯, 3个
ScaleAmounts ==
    {<<"2", "0", "0", "ke">>, <<"1", ".", "5", "bei">>, <<"2", " ", "shao">>,
     <<"1", "/", "2", "bei">>, <<"shi", "liang">>, <<"shao", "xu">>,
     <<"ban", "bei">>, <<"3", "ge">>}

ScaleIngredients == {[name |-> <<"da", "mi">>, amount |-> a] : a \in ScaleAmounts}

ScaleRecipes ==
    {[RecipePool.r1 EXCEPT !.servings = s, !.ingredients = ings] :
        s \in 1..MaxServings,
        ings \in {<<a>> : a \in ScaleIngredients}
                 \cup {<<a, b>> : a \in ScaleIngredients, b \in ScaleIngredients}}

\* one application of scaleRecipeIngredients to a recipe of the catalog
ScaleRecipeIngredients ==
    /\ Idle
    /\ \E i \in 1..Len(catalog), targetServings \in 1..MaxTargetServings :
          /\ input' = Some([tool |-> "scaleRecipeIngredients",
                            args |-> [recipe |-> catalog[i],
                                      targetServings |-> targetServings]])
          /\ response' = Some(scaleRecipeIngredients(catalog[i], targetServings))
          /\ calls' = <<"scaleRecipeIngredients", "scaleIngredientAmount">>
    /\ UNCHANGED catalog

InitScale ==
    /\ catalog \in {<<r>> : r \in ScaleRecipes}
    /\ input = None
    /\ response = None
    /\ calls = <<>>

NextScale == ScaleRecipeIngredients \/ ReturnResult

SpecScale == InitScale /\ [][NextScale]_vars

ScaleCall == input # None /\ input[1].tool = "scaleRecipeIngredients" /\ response # None

\* the amount the claim expects for an amount of the recipe: a text that
\* begins with a number becomes the nearest hundredth of number * t / servings
\* (halves upwards) followed by the unit text, any other text stays as it is
IsScaledAmount(scaled, amount, targetServings, servings) ==
    LET m == NumericMatch(amount)
    IN  IF m = None THEN scaled = amount
        ELSE LET p == 100 * m[1].num * targetServings
                 q == m[1].den * servings
             IN  \E h \in {p \div q, (p \div q) + 1} :
                    /\ 2 * h * q - 2 * p <= q
                    /\ 2 * p - 2 * h * q < q
                    /\ scaled = NumberToText(h) \o m[1].unit

\* C11: scaleRecipeIngredients(R, t) has servings t; every amount that begins
\* with a number becomes the number times t / R.servings rounded to two
\* decimal places, followed by the unit text unchanged; every qualifier and
\* every other amount that does not begin with a number is returned unchanged
C11_ScaledServingsAndAmounts ==
    ScaleCall =>
        LET recipe == Args.recipe
            t == Args.targetServings
            scaled == response[1]
        IN  /\ scaled.servings = t
            /\ Len(scaled.ingredients) = Len(recipe.ingredients)
            /\ \A i \in 1..Len(recipe.ingredients) :
                  /\ scaled.ingredients[i].name = recipe.ingredients[i].name
                  /\ IsScaledAmount(scaled.ingredients[i].amount,
                                    recipe.ingredients[i].amount, t, recipe.servings)
                  /\ (~ IsDigit(recipe.ingredients[i].amount[1])
                        => scaled.ingredients[i].amount = recipe.ingredients[i].amount)

\* 1.5杯 of a recipe for 4 scaled to 3 servings is 1.13杯 (1.125 rounded up),
\* next to a qualifier amount that stays 适量
C11_Witness ==
    /\ ScaleCall
    /\ Args.recipe.servings = 4
    /\ Args.targetServings = 3
    /\ Len(Args.recipe.ingredients) = 2
    /\ Args.recipe.ingredients[1].amount = <<"1", ".", "5", "bei">>
    /\ response[1].ingredients[1].amount = <<"1", ".", "1", "3", "bei">>
    /\ Args.recipe.ingredients[2].amount = <<"shi", "liang">>
    /\ response[1].ingredients[2].amount = <<"shi", "liang">>

----------------------------------------------------------------------------
(* Applications of generateShoppingListFromRecipes *)

\* recipes handed to the shopping list: 大米 200克 for 2, 大米 100克 for 2,
\* 大米 "2 杯" for 4, 大米 适量 and 土豆 1个 for 2, 盐 少许 and 大米 1.5杯 for 1
ShoppingPool ==
    <<[RecipePool.r1 EXCEPT !.id = "s1", !.servings = 2, !.ingredients =
          <<[name |-> <<"da", "mi">>, amount |-> <<"2", "0", "0", "ke">>]>>],
      [RecipePool.r1 EXCEPT !.id = "s2", !.servings = 2, !.ingredients =
          <<[name |-> <<"da", "mi">>, amount |-> <<"1", "0", "0", "ke">>]>>],
      [RecipePool.r3 EXCEPT !.id = "s3", !.servings = 4, !.ingredients =
          <<[name |-> <<"da", "mi">>, amount |-> <<"2", " ", "bei">>]>>],
      [RecipePool.r3 EXCEPT !.id = "s4", !.servings = 2, !.ingredients =
          <<[name |-> <<"da", "mi">>, amount |-> <<"shi", "liang">>],
            [name |-> <<"tu", "dou">>, amount |-> <<"1", "ge">>]>>],
      [RecipePool.r4 EXCEPT !.id = "s5", !.servings = 1, !.ingredients =
          <<[name |-> <<"yan">>, amount |-> <<"shao", "xu">>],
            [name |-> <<"da", "mi">>, amount |-> <<"1", ".", "5", "bei">>]>>]>>

\* the recipe lists of at most n recipes of the catalog, repeats allowed (a
\* meal plan may serve a recipe more than once)
RecipeLists(n) ==
    UNION {[1..k -> Range(catalog)] : k \in 0..n}

ShoppingRequests ==
    [numberOfPeople : 1..MaxPeople,
     consolidateItems : {None, Some(TRUE), Some(FALSE)},
     includePriceEstimates : BOOLEAN,
     excludeCategories : {None, Some(<<"tiaoliao">>)}]

\* one application of generateShoppingListFromRecipes
GenerateShoppingListFromRecipes ==
    /\ Idle
    /\ \E recipes \in RecipeLists(MaxShoppingRecipes), request \in ShoppingRequests :
          /\ input' = Some([tool |-> "generateShoppingListFromRecipes",
                            args |-> [recipes |-> recipes, request |-> request]])
          /\ response' = Some(generateShoppingListFromRecipes(recipes, request))
          /\ calls' = <<"generateShoppingListFromRecipes", "consolidateIngredients",
                        "groupItemsByCategory">>
    /\ UNCHANGED catalog

InitShopping ==
    /\ catalog = ShoppingPool
    /\ input = None
    /\ response = None
    /\ calls = <<>>

NextShopping == GenerateShoppingListFromRecipes \/ ReturnResult

SpecShopping == InitShopping /\ [][NextShopping]_vars

ShoppingCall ==
    input # None /\ input[1].tool = "generateShoppingListFromRecipes" /\ response # None

Consolidating ==
    ShoppingCall /\ Args.request.consolidateItems \in {None, Some(TRUE)}

\* all items of a shopping list, section after section
RECURSIVE ItemsOf(_)
ItemsOf(sections) ==
    IF sections = <<>> THEN <<>> ELSE Head(sections).items \o ItemsOf(Tail(sections))

\* the scaled amounts the recipes contribute for one ingredient name, in order
ScaledContributions(recipes, name, numberOfPeople) ==
    LET all == Contributions(recipes)
        named == SelectSeq(all, LAMBDA c : c.ingredient.name = name)
    IN  [i \in 1..Len(named) |->
            scaleIngredientAmount(named[i].ingredient.amount, numberOfPeople,
                                  named[i].recipe.servings)]

\* the quantity the claim describes: contributions that share a unit are
\* summed into the first of them, every other contribution stays a literal
RECURSIVE SummedByUnit(_, _)
SummedByUnit(parts, amounts) ==
    IF amounts = <<>> THEN parts
    ELSE LET a == Head(amounts)
             m == NumericMatch(a)
             same == {i \in 1..Len(parts) :
                        /\ m # None
                        /\ NumericMatch(parts[i]) # None
                        /\ NumericMatch(parts[i])[1].unit = m[1].unit}
         IN  IF same = {} THEN SummedByUnit(Append(parts, a), Tail(amounts))
             ELSE LET i == CHOOSE j \in same : TRUE
                      p == NumericMatch(parts[i])[1]
                      hundredths == (100 * p.num) \div p.den + (100 * m[1].num) \div m[1].den
                  IN  SummedByUnit([parts EXCEPT ![i] = NumberToText(hundredths) \o p.unit],
                                   Tail(amounts))

RECURSIVE JoinPlus(_)
JoinPlus(parts) ==
    IF Len(parts) = 1 THEN parts[1]
    ELSE JoinPlus(SubSeq(parts, 1, Len(parts) - 1)) \o <<" ", "+", " ">> \o parts[Len(parts)]

\* C12: with consolidation the list has exactly one item per ingredient name
\* of the recipes (outside the excluded categories), and the quantity of the
\* item is the sum of the scaled contributions that share a unit, joined by
\* " + " with every contribution of another unit
C12_OneItemPerNameWithSummedQuantity ==
    Consolidating =>
        LET items == ItemsOf(Result.sections)
            contributions == Contributions(Args.recipes)
            names == {contributions[i].ingredient.name : i \in 1..Len(contributions)}
            listed == {n \in names :
                        \/ Args.request.excludeCategories = None
                        \/ ~ Includes(Args.request.excludeCategories[1],
                                      categorizeIngredient(n))}
        IN  /\ \A n \in listed : Cardinality({i \in 1..Len(items) : items[i].name = n}) = 1
            /\ \A i \in 1..Len(items) :
                  /\ items[i].name \in listed
                  /\ items[i].quantity =
                        JoinPlus(SummedByUnit(<<>>,
                            ScaledContributions(Args.recipes, items[i].name,
                                                Args.request.numberOfPeople)))

\* the sections of a list as category, item names and quantity strings
SectionContent(sections) ==
    [i \in 1..Len(sections) |->
        [category |-> sections[i].category,
         items |-> {[name |-> sections[i].items[j].name,
                     quantity |-> sections[i].items[j].quantity] :
                        j \in 1..Len(sections[i].items)}]]

\* C13: with consolidation the shopping list of [A, B] and that of [B, A]
\* have the same sections with the same item names and quantity strings
C13_ConsolidationCommutative ==
    (Consolidating /\ Len(Args.recipes) = 2) =>
        SectionContent(Result.sections) =
            SectionContent(generateShoppingListFromRecipes(
                <<Args.recipes[2], Args.recipes[1]>>, Args.request).sections)

----------------------------------------------------------------------------
(* Order of the checks of the two recommendation tools *)

RecommendCall == CombinationCall \/ MealPlanCall

\* the request fails the validation of its tool
RequestInvalid ==
    \/ Args.preferences.numberOfPeople < 1
    \/ Args.preferences.numberOfPeople > 20
    \/ (CombinationCall /\ RequestedMinDishes > RequestedMaxDishes)

\* the functions that filter, select, plan or build the shopping list
WorkCalls ==
    {"generateDishCombination", "filterRecipesByPreferences",
     "selectDishesForCombination", "assignDishRoles", "generateWeeklyMealPlan",
     "generateDailyMealPlan", "calculateMealPlanStats",
     "generateShoppingListFromMealPlan"}

CallIndex(name) == CHOOSE i \in 1..Len(calls) : calls[i] = name

\* C15: a request that fails validation is answered before the catalog is
\* read; a valid request on an empty catalog is answered 'No recipes
\* available' without any filtering, selection or shopping-list generation;
\* filtering and selection start only after the catalog has been read
C15_ValidationThenEmptyCatalogThenWork ==
    RecommendCall =>
        /\ RequestInvalid =>
              /\ Result.success = FALSE
              /\ Result.error # "No recipes available"
              /\ ~ Includes(calls, "getAllRecipes")
              /\ Range(calls) \cap WorkCalls = {}
        /\ (~ RequestInvalid /\ catalog = <<>>) =>
              /\ Result.success = FALSE
              /\ Result.error = "No recipes available"
              /\ Range(calls) \cap WorkCalls = {}
        /\ \A i \in 1..Len(calls) :
              calls[i] \in WorkCalls =>
                  /\ Includes(calls, "getAllRecipes")
                  /\ CallIndex("getAllRecipes") < i
                  /\ CallIndex("parse") < CallIndex("getAllRecipes")
                  /\ catalog # <<>>

\* a valid meal-plan request that asks for the shopping list, on an empty catalog
C15_Witness ==
    /\ MealPlanCall
    /\ ~ RequestInvalid
    /\ Args.includeShoppingList = None
    /\ catalog = <<>>
    /\ Result.error = "No recipes available"
    /\ calls = <<"parse", "validateMealPlanPreferences", "getAllRecipes">>

----------------------------------------------------------------------------
(* Hard and soft constraints of the preference filters *)

RecipeMinutes(recipe) ==
    parseTimeInMinutes(recipe.prepTime) + parseTimeInMinutes(recipe.cookTime)

\* the ceiling of a meal-plan request: the given parts of timeConstraints
MealPlanCeiling(preferences) ==
    LET tc == preferences.timeConstraints[1]
    IN  (IF tc.maxPrepTime = None THEN 0 ELSE parseTimeInMinutes(tc.maxPrepTime[1]))
        + (IF tc.maxCookTime = None THEN 0 ELSE parseTimeInMinutes(tc.maxCookTime[1]))

HasMealPlanCeiling(preferences) ==
    /\ preferences.timeConstraints # None
    /\ \/ preferences.timeConstraints[1].maxPrepTime # None
       \/ preferences.timeConstraints[1].maxCookTime # None

HasCombinationCeiling(preferences) ==
    preferences.cookingTime # None /\ preferences.cookingTime[1] # <<>>

\* C18: with a time ceiling no recipe of the filtered set, no recommended
\* dish and no planned meal takes more minutes of preparation plus cooking
\* than the ceiling, in dish-combination mode (cookingTime) and in meal-plan
\* mode (timeConstraints)
C18_TimeCeilingExcludes ==
    /\ (CombinationCall /\ HasCombinationCeiling(Args.preferences)) =>
          LET ceiling == parseTimeInMinutes(Args.preferences.cookingTime[1])
          IN  /\ \A i \in 1..Len(CombinationFiltered) :
                    RecipeMinutes(CombinationFiltered[i]) <= ceiling
              /\ Result.success =>
                    \A i \in 1..Len(Dishes) : RecipeMinutes(Dishes[i].recipe) <= ceiling
    /\ (MealPlanCall /\ HasMealPlanCeiling(Args.preferences)) =>
          LET ceiling == MealPlanCeiling(Args.preferences)
          IN  /\ \A i \in 1..Len(MealPlanFiltered) :
                    RecipeMinutes(MealPlanFiltered[i]) <= ceiling
              /\ Result.success =>
                    \A meal \in MealsOf(Result.data.mealPlan) :
                        RecipeMinutes(meal.recipe) <= ceiling

NoNuts(preferences) ==
    /\ preferences.dietaryRestrictions # None
    /\ Includes(preferences.dietaryRestrictions[1], "wujianguo")

HasNuts(recipe) ==
    \E i \in 1..Len(recipe.ingredients) :
        \E kw \in {<<"hua", "sheng">>, <<"he", "tao">>, <<"xing", "ren">>} :
            TextIncludes(recipe.ingredients[i].name, kw)

\* C19: with the no-nuts restriction no recipe of the filtered set, no
\* recommended dish and no planned meal has an ingredient whose name contains
\* 花生, 核桃 or 杏仁, in dish-combination mode and in meal-plan mode
C19_NoNutsExcludesNutRecipes ==
    /\ (CombinationCall /\ NoNuts(Args.preferences)) =>
          /\ \A i \in 1..Len(CombinationFiltered) : ~ HasNuts(CombinationFiltered[i])
          /\ Result.success =>
                \A i \in 1..Len(Dishes) : ~ HasNuts(Dishes[i].recipe)
    /\ (MealPlanCall /\ NoNuts(Args.preferences)) =>
          /\ \A i \in 1..Len(MealPlanFiltered) : ~ HasNuts(MealPlanFiltered[i])
          /\ Result.success =>
                \A meal \in MealsOf(Result.data.mealPlan) : ~ HasNuts(meal.recipe)

\* the recipe passes the hard constraints of a meal-plan request: dietary
\* restrictions, excluded categories and skill level
SatisfiesHardConstraints(preferences, recipe) ==
    /\ (preferences.dietaryRestrictions # None
            /\ Len(preferences.dietaryRestrictions[1]) > 0)
          => MealDietaryKeeps(preferences, recipe)
    /\ preferences.excludedCategories # None
          => ~ Includes(preferences.excludedCategories[1], recipe.category)
    /\ preferences.cookingSkillLevel # None
          => Includes(skillMap[preferences.cookingSkillLevel[1]], recipe.difficulty)

\* C20: when some recipe of the catalog satisfies all hard constraints of a
\* meal-plan request, the filtered set is not empty, whatever the
\* preferredCategories list is
C20_PreferredCategoriesAreSoft ==
    (MealPlanCall /\ FilterRan) =>
        ((\E i \in 1..Len(catalog) : SatisfiesHardConstraints(Args.preferences, catalog[i]))
            => MealPlanFiltered # <<>>)

----------------------------------------------------------------------------
(* Responses of the five tool handlers *)

ToolNames ==
    {"recommend_dish_combination", "recommend_meal_plan", "get_all_recipes",
     "get_recipes_by_category", "get_recipe_details"}

\* the call being served was given an input that its schema rejects
SchemaInvalid ==
    CASE input[1].tool = "recommend_dish_combination" ->
            ~ RecommendDishCombinationInputValid(Args)
      [] input[1].tool = "recommend_meal_plan" ->
            ~ RecommendMealPlanInputValid(Args)
      [] input[1].tool = "get_all_recipes" -> ~ GetAllRecipesInputValid(Args)
      [] input[1].tool = "get_recipes_by_category" ->
            ~ GetRecipesByCategoryInputValid(Args)
      [] input[1].tool = "get_recipe_details" -> ~ GetRecipeDetailsInputValid(Args)

\* the response is an MCPResponse
WellFormedResponse(r) ==
    /\ "success" \in DOMAIN r
    /\ r.success \in BOOLEAN
    /\ ~ r.success => "error" \in DOMAIN r /\ r.error \in STRING

\* every input that can be drawn for a tool is given a response
EveryInputAnswered ==
    /\ \A in \in CombinationInputs :
          handleRecommendDishCombination(getAllRecipes, in) # {}
    /\ \A in \in MealPlanInputs : handleRecommendMealPlan(getAllRecipes, in) # {}
    /\ \A in \in GetAllRecipesInputs : handleGetAllRecipes(getAllRecipes, in) # {}
    /\ \A in \in GetRecipesByCategoryInputs :
          handleGetRecipesByCategory(getAllRecipes, in) # {}
    /\ \A in \in GetRecipeDetailsInputs :
          handleGetRecipeDetails(getAllRecipes, in) # {}

\* C14: every call of one of the five tools, schema-invalid input included,
\* is answered, and the answer carries a boolean success field and, when
\* success is false, a string error.
C14_EveryCallResolvesToResponse ==
    /\ Idle => EveryInputAnswered
    /\ response # None =>
          /\ input # None /\ input[1].tool \in ToolNames
          /\ WellFormedResponse(Result)
          /\ SchemaInvalid => ~ Result.success

\* a get_recipe_details call with scaleServings above 20 is answered with a
\* failure response
C14_Witness ==
    /\ response # None
    /\ input[1].tool = "get_recipe_details"
    /\ Args.scaleServings = Some(21)
    /\ SchemaInvalid
    /\ Result.success = FALSE
    /\ Result.error = "Failed to retrieve recipe details"

----------------------------------------------------------------------------
(* The catalog is read-only for the five tools *)

DetailsCall ==
    /\ input # None
    /\ response # None
    /\ input[1].tool = "get_recipe_details"

\* the get_recipe_details call being served returned a scaled recipe
ScaledDetailsCall ==
    /\ DetailsCall
    /\ Result.success
    /\ Result.data.scaledForServings # None

\* the catalog entry that has the id of the given recipe
CatalogEntry(recipe) ==
    catalog[CHOOSE i \in 1..Len(catalog) : catalog[i].id = recipe.id]

\* C16: no call of a tool changes the catalog: it holds the same recipes in
\* the same order with the same field values after every step; the recipe
\* returned by get_recipe_details with scaleServings has the requested
\* servings while the catalog entry keeps its own servings and amounts.
C16_CatalogUnchangedByCalls ==
    [][/\ catalog' = catalog
       /\ ScaledDetailsCall' =>
            /\ Result'.data.recipe.servings = Args'.scaleServings[1]
            /\ \E i \in 1..Len(catalog) :
                 /\ catalog[i].id = Result'.data.recipe.id
                 /\ catalog'[i] = catalog[i]
                 /\ catalog'[i].servings # Args'.scaleServings[1]]_vars

\* recipe r1 (2 servings, 200克 of pork) was returned scaled for 4 servings
\* with 400克, and the catalog entry still has 2 servings and 200克
C16_Witness ==
    /\ ScaledDetailsCall
    /\ Args.scaleServings = Some(4)
    /\ Result.data.recipe.id = "r1"
    /\ Result.data.recipe.servings = 4
    /\ Result.data.recipe.ingredients[1].amount = <<"4", "0", "0", "ke">>
    /\ CatalogEntry(Result.data.recipe).servings = 2
    /\ CatalogEntry(Result.data.recipe).ingredients[1].amount = <<"2", "0", "0", "ke">>

----------------------------------------------------------------------------
(* Tool calls interleaved with writes of the catalog                       *)
(*                                                                         *)
(* Under this specification input, response and calls are functions of     *)
(* the call: several calls are in flight at once.  A call is suspended at  *)
(* the await import(..) of its toolHandlers entry and again at the await   *)
(* of the request handler on the result; the body of the handler has no    *)
(* await and is one step.                                                  *)

MaxClock == 5    \* latest instant at which updateRecipe stamps a recipe

CallIds == {"c1", "c2"}

SeedCatalog == <<RecipePool.r1, RecipePool.r2>>

ConcurrentRequests ==
    <<[tool |-> "recommend_meal_plan",
       args |-> [preferences |->
                    [NoMealPlanPreferences EXCEPT
                        !.cookingSkillLevel = Some("chuxuezhe")],
                 startDate |-> None, planDuration |-> Some(1),
                 includeShoppingList |-> Some(TRUE),
                 consolidateIngredients |-> None]],
      [tool |-> "recommend_dish_combination",
       args |-> [preferences |->
                    [numberOfPeople |-> 2, budgetLevel |-> None,
                     dietaryRestrictions |-> None,
                     skillLevel |-> None, cookingTime |-> None],
                 excludeRecipeIds |-> None, includeRecipeIds |-> None,
                 maxDishes |-> None, minDishes |-> Some(2)]],
      [tool |-> "get_all_recipes",
       args |-> [page |-> None, limit |-> None, sortBy |-> None,
                 sortOrder |-> None, includeDetails |-> None]],
      [tool |-> "get_recipes_by_category",
       args |-> [category |-> "huncai", limit |-> None, sortBy |-> None,
                 sortOrder |-> None, includeStats |-> Some(TRUE)]],
      [tool |-> "get_recipe_details",
       args |-> [identifier |-> <<"r1">>, searchBy |-> None,
                 includeRelated |-> Some(TRUE), includeNutrition |-> None,
                 scaleServings |-> Some(4)]]>>

\* the outcomes of the body of the handler of the tool on the given catalog
ToolRuns(allRecipes, request) ==
    CASE request.tool = "recommend_meal_plan" ->
            {[response |-> o.response, calls |-> o.calls, recipes |-> allRecipes] :
                o \in handleRecommendMealPlan(allRecipes, request.args)}
      [] request.tool = "recommend_dish_combination" ->
            {[response |-> o.response, calls |-> o.calls, recipes |-> allRecipes] :
                o \in handleRecommendDishCombination(allRecipes, request.args)}
      [] request.tool = "get_all_recipes" ->
            handleGetAllRecipes(allRecipes, request.args)
      [] request.tool = "get_recipes_by_category" ->
            handleGetRecipesByCategory(allRecipes, request.args)
      [] request.tool = "get_recipe_details" ->
            handleGetRecipeDetails(allRecipes, request.args)

InitConcurrent ==
    /\ catalog = SeedCatalog
    /\ input = [c \in CallIds |-> None]
    /\ response = [c \in CallIds |-> None]
    /\ calls = [c \in CallIds |-> <<>>]

\* the request handler looks the tool up and the toolHandlers entry starts
\* to import the module of the handler
CallTool(c) ==
    /\ input[c] = None
    /\ \E i \in 1..Len(ConcurrentRequests) :
          input' = [input EXCEPT ![c] = Some(ConcurrentRequests[i])]
    /\ calls' = [calls EXCEPT ![c] = <<"import">>]
    /\ UNCHANGED <<catalog, response>>

\* the body of the handler, from the parse of the input to the return
RunHandler(c) ==
    /\ input[c] # None
    /\ response[c] = None
    /\ \E out \in ToolRuns(catalog, input[c][1]) :
          /\ response' = [response EXCEPT ![c] = Some(out.response)]
          /\ calls' = [calls EXCEPT ![c] = calls[c] \o out.calls]
          /\ catalog' = out.recipes
    /\ UNCHANGED input

\* the request handler resumes with the result and sends it
ReturnConcurrent(c) ==
    /\ response[c] # None
    /\ input' = [input EXCEPT ![c] = None]
    /\ response' = [response EXCEPT ![c] = None]
    /\ calls' = [calls EXCEPT ![c] = <<>>]
    /\ UNCHANGED catalog

\* RecipeDataManager.addRecipe: throws when the id exists
addRecipe(recipes, recipe) ==
    IF \E i \in 1..Len(recipes) : recipes[i].id = recipe.id
    THEN recipes
    ELSE Append(recipes, recipe)

\* the id of updatedRecipe replaces the id of the recipe
updateRecipe_PatchWins(recipes, id, updatedRecipe, now) ==
    [i \in 1..Len(recipes) |->
        IF recipes[i].id = id
        THEN [f \in DOMAIN recipes[i] |->
                CASE f = "lastModified" -> now
                  [] f \in DOMAIN updatedRecipe -> updatedRecipe[f]
                  [] OTHER -> recipes[i][f]]
        ELSE recipes[i]]

\* RecipeDataManager.updateRecipe: the fields of updatedRecipe replace those
\* of the recipe, the id stays and lastModified is the instant of the call
updateRecipe(recipes, id, updatedRecipe, now) ==
    [i \in 1..Len(recipes) |->
        IF recipes[i].id = id
           /\ \A j \in 1..(i - 1) : recipes[j].id # id
        THEN [f \in DOMAIN recipes[i] |->
                CASE f = "id" -> id
                  [] f = "lastModified" -> now
                  [] f \in DOMAIN updatedRecipe -> updatedRecipe[f]
                  [] OTHER -> recipes[i][f]]
        ELSE recipes[i]]

\* RecipeDataManager.deleteRecipe: splices the first recipe with the id out
deleteRecipe(recipes, id) ==
    LET at == {i \in 1..Len(recipes) : recipes[i].id = id}
    IN  IF at = {} THEN recipes
        ELSE LET index == CHOOSE i \in at : \A j \in at : i <= j
             IN  SubSeq(recipes, 1, index - 1)
                 \o SubSeq(recipes, index + 1, Len(recipes))

\* the latest stamp of the catalog
LatestInstant(recipes) ==
    IF recipes = <<>> THEN 0
    ELSE CHOOSE t \in {recipes[i].lastModified : i \in 1..Len(recipes)} :
            \A i \in 1..Len(recipes) : recipes[i].lastModified <= t

SeedIds == {SeedCatalog[i].id : i \in 1..Len(SeedCatalog)}

AddRecipe ==
    /\ \E i \in 1..Len(SeedCatalog) :
          catalog' = addRecipe(catalog, SeedCatalog[i])
    /\ UNCHANGED <<input, response, calls>>

UpdateRecipe ==
    /\ LatestInstant(catalog) < MaxClock
    /\ \E id \in SeedIds :
          catalog' = updateRecipe(catalog, id, [difficulty |-> "kunnan"],
                                  LatestInstant(catalog) + 1)
    /\ UNCHANGED <<input, response, calls>>

DeleteRecipe ==
    /\ \E id \in SeedIds : catalog' = deleteRecipe(catalog, id)
    /\ UNCHANGED <<input, response, calls>>

NextConcurrent ==
    \/ \E c \in CallIds : CallTool(c)
    \/ \E c \in CallIds : RunHandler(c)
    \/ \E c \in CallIds : ReturnConcurrent(c)
    \/ AddRecipe
    \/ UpdateRecipe
    \/ DeleteRecipe

SpecConcurrent == InitConcurrent /\ [][NextConcurrent]_vars

----------------------------------------------------------------------------
(* Each result is computed from one state of the catalog *)

\* the fields of a recipe that scaling leaves alone
SameButScaled(a, b) ==
    /\ a.id = b.id /\ a.name = b.name /\ a.category = b.category
    /\ a.difficulty = b.difficulty /\ a.lastModified = b.lastModified
    /\ a.prepTime = b.prepTime /\ a.cookTime = b.cookTime
    /\ Len(a.ingredients) = Len(b.ingredients)

\* the response r to the request is made of the recipes of the catalog cat
\* and of nothing else: every recipe in it is a recipe of cat as cat has it,
\* and what it counts is counted over cat
ComputedFrom(r, request, cat) ==
    CASE request.tool = "recommend_meal_plan" ->
            IF cat = <<>>
            THEN ~ r.success /\ r.error = "No recipes available"
            ELSE /\ ~ r.success => r.error # "No recipes available"
                 /\ r.success =>
                      LET planned == PlanRecipes(r.data.mealPlan.dailyPlans, 1)
                          items == ItemsOf(r.data.shoppingList[1].sections)
                      IN  /\ Range(planned) \subseteq Range(cat)
                          /\ \A i \in 1..Len(items) :
                               \E k \in 1..Len(planned) :
                                  /\ Includes(items[i].recipeIds, planned[k].id)
                                  /\ \E j \in 1..Len(planned[k].ingredients) :
                                       planned[k].ingredients[j].name = items[i].name
      [] request.tool = "recommend_dish_combination" ->
            IF cat = <<>>
            THEN ~ r.success /\ r.error = "No recipes available"
            ELSE /\ ~ r.success => r.error # "No recipes available"
                 /\ r.success =>
                      \A i \in 1..Len(r.data.combination.dishes) :
                         r.data.combination.dishes[i].recipe \in Range(cat)
      [] request.tool = "get_all_recipes" ->
            /\ r.success
            /\ r.data.totalCount = Len(cat)
            /\ Len(r.data.items) = Len(cat)
            /\ Range(r.data.items) = Range(cat)
      [] request.tool = "get_recipes_by_category" ->
            LET inCategory == {i \in 1..Len(cat) :
                                 cat[i].category = request.args.category}
            IN  /\ r.success
                /\ r.data.totalCount = Cardinality(inCategory)
                /\ Range(r.data.recipes) = {cat[i] : i \in inCategory}
                /\ (r.data.statistics = None) = (inCategory = {})
                /\ r.data.statistics # None =>
                     \A d \in {"jiandan", "zhongdeng", "kunnan"} :
                        r.data.statistics[1].difficultyDistribution[d]
                        = Cardinality({i \in inCategory : cat[i].difficulty = d})
      [] request.tool = "get_recipe_details" ->
            LET at == {i \in 1..Len(cat) : <<cat[i].id>> = request.args.identifier}
            IN  IF at = {}
                THEN ~ r.success /\ r.error = "Recipe not found"
                ELSE /\ r.success
                     /\ \E i \in at :
                          LET others == {j \in 1..Len(cat) :
                                           /\ cat[j].id # cat[i].id
                                           /\ cat[j].category = cat[i].category}
                              related == r.data.relatedRecipes[1]
                          IN  /\ SameButScaled(r.data.recipe, cat[i])
                              /\ Len(related) = Min(3, Cardinality(others))
                              /\ \A k \in 1..Len(related) :
                                   \E j \in others :
                                      /\ cat[j].id = related[k].id
                                      /\ cat[j].difficulty = related[k].difficulty
                                      /\ cat[j].servings = related[k].servings

\* C17: a call is suspended only before the body of its handler starts and
\* after it has returned; the step in which the result appears computes it
\* from the catalog of that one state, whatever writes of the catalog and
\* whatever other calls come before and after it, and the result is not
\* changed afterwards.
C17_ResultFromOneCatalogState ==
    [][\A c \in CallIds :
          /\ (input[c] # None /\ response[c] = None) => calls[c] = <<"import">>
          /\ (response[c] = None /\ response'[c] # None) =>
                /\ ComputedFrom(response'[c][1], input[c][1], catalog)
                /\ catalog' = catalog
          /\ (response[c] # None /\ response'[c] # None) =>
                response'[c] = response[c]]_vars

\* two calls are answered and not yet sent; the catalog was written between
\* their handlers: the result of c2 is made of the present catalog, the
\* result of c1 of an earlier one
C17_Witness ==
    /\ response["c1"] # None
    /\ response["c2"] # None
    /\ input["c1"][1].tool \in {"recommend_meal_plan", "recommend_dish_combination"}
    /\ response["c1"][1].success
    /\ ComputedFrom(response["c2"][1], input["c2"][1], catalog)
    /\ ~ ComputedFrom(response["c1"][1], input["c1"][1], catalog)

----------------------------------------------------------------------------
(* Meal slots of the daily plans *)

PlannedMeals == MealsOf(Result.data.mealPlan)

LunchAndDinnerFromTheirCategories ==
    \A meal \in PlannedMeals :
        /\ meal.mealType = "wucan" =>
              meal.recipe.category \in {"huncai", "sucai", "zhushi", "tanggeng"}
        /\ meal.mealType = "wancan" =>
              meal.recipe.category \in {"huncai", "sucai", "shuichan", "tanggeng"}

\* C21 as stated: in every daily plan the recipe of the breakfast has
\* category 早餐, the recipe of the lunch a category in {荤菜, 素菜, 主食, 汤羹}
\* and the recipe of the dinner a category in {荤菜, 素菜, 水产, 汤羹}.
C21_SlotCategories ==
    MealPlanSucceeded =>
        /\ \A meal \in PlannedMeals :
              meal.mealType = "zaocan" => meal.recipe.category = "zaocan"
        /\ LunchAndDinnerFromTheirCategories

\* C21 amended: the recipe of the breakfast has category 早餐 or carries the
\* tag 早餐; lunch and dinner are as stated.
C21_SlotCategoriesOrBreakfastTag ==
    MealPlanSucceeded =>
        /\ \A meal \in PlannedMeals :
              meal.mealType = "zaocan" =>
                 \/ meal.recipe.category = "zaocan"
                 \/ (meal.recipe.tags # None
                     /\ Includes(meal.recipe.tags[1], "zaocan"))
        /\ LunchAndDinnerFromTheirCategories

\* a plan whose breakfast is the tagged staple on one day and the recipe of
\* category 早餐 on another, with a lunch on every day
C21_Witness ==
    /\ MealPlanSucceeded
    /\ \E meal \in PlannedMeals :
          meal.mealType = "zaocan" /\ meal.recipe.category = "zhushi"
    /\ \E meal \in PlannedMeals :
          meal.mealType = "zaocan" /\ meal.recipe.category = "zaocan"
    /\ \E meal \in PlannedMeals : meal.mealType = "wucan"

\* the recipes of the plan being returned, meal after meal
ResultPlanRecipes == PlanRecipes(Result.data.mealPlan.dailyPlans, 1)

\* C22: within one weekly plan no recipe is selected for more than one
\* meal: the recipe ids of the planned meals are pairwise distinct.
C22_NoRecipeTwiceInPlan ==
    MealPlanSucceeded =>
        \A i, j \in 1..Len(ResultPlanRecipes) :
            i # j => ResultPlanRecipes[i].id # ResultPlanRecipes[j].id

----------------------------------------------------------------------------
(* Category diversity of the dish combination *)

\* the recipes of the call being served that pass the preference filter and
\* are not excluded by id
EligibleRecipes ==
    SelectSeq(CombinationFiltered, LAMBDA r : r.id \notin ExcludeIds)

DishCategories == {Dishes[i].recipe.category : i \in 1..Len(Dishes)}

\* C23: whenever the returned combination has fewer than maxDishes dishes,
\* every one of the categories 荤菜, 素菜, 汤羹, 主食, 水产 that has an eligible
\* (filtered, non-excluded) recipe is represented in the combination.
C23_CategoriesRepresentedBelowMax ==
    (CombinationSucceeded /\ Len(Dishes) < RequestedMaxDishes) =>
        \A category \in {"huncai", "sucai", "tanggeng", "zhushi", "shuichan"} :
            (\E i \in 1..Len(EligibleRecipes) :
                EligibleRecipes[i].category = category)
            => category \in DishCategories

\* two dishes were asked for at least and six at most; three recipes are
\* eligible, two of them 荤菜; the combination has two dishes, one 荤菜 and
\* one 素菜
C23_Witness ==
    /\ CombinationSucceeded
    /\ Args.minDishes = Some(2)
    /\ Args.maxDishes = None
    /\ Len(EligibleRecipes) = 3
    /\ Cardinality({i \in 1..3 : EligibleRecipes[i].category = "huncai"}) = 2
    /\ Len(Dishes) = 2
    /\ DishCategories = {"huncai", "sucai"}

----------------------------------------------------------------------------
(* Sections of the shopping list *)

Sections == Result.sections

\* the categories in the order of the keyword table and of the display
ShoppingCategoryOrder ==
    <<"shucai", "shuiguo", "roulei", "haixian", "dannai", "zhushi", "tiaoliao",
      "lengdongshipin", "guantou", "yinpin", "lingshi", "qita">>

CategoryIndex(category) ==
    CHOOSE i \in 1..Len(ShoppingCategoryOrder) : ShoppingCategoryOrder[i] = category

\* the categories one of whose keywords the name contains
MatchingCategories(name) ==
    {categoryKeywords[i].category : i \in
        {j \in 1..Len(categoryKeywords) :
            \E keyword \in categoryKeywords[j].keywords : TextIncludes(name, keyword)}}

\* category is the first matching category for the name, 其他 when none
IsFirstMatch(category, name) ==
    IF MatchingCategories(name) = {} THEN category = "qita"
    ELSE /\ category \in MatchingCategories(name)
         /\ \A other \in MatchingCategories(name) :
               CategoryIndex(category) <= CategoryIndex(other)

\* the keys under which consolidateIngredients groups the contributions whose
\* category is not excluded
ExpectedKeys ==
    LET all == Contributions(Args.recipes)
        kept == {i \in 1..Len(all) :
                    \/ Args.request.excludeCategories = None
                    \/ \A c \in Range(Args.request.excludeCategories[1]) :
                          ~ IsFirstMatch(c, all[i].ingredient.name)}
    IN  {IF Consolidating THEN <<all[i].ingredient.name, "">>
         ELSE <<all[i].ingredient.name, all[i].recipe.id>> : i \in kept}

\* C24: each item lies in one section, whose category is the first category
\* of the keyword order with a keyword contained in the item name (其他 when
\* none matches); no item is lost or doubled; no category has two sections;
\* the sections follow the display priority.
C24_SectionsByFirstKeywordInOrder ==
    ShoppingCall =>
        /\ \A k \in 1..Len(Sections) :
              /\ Len(Sections[k].items) > 0
              /\ \A i \in 1..Len(Sections[k].items) :
                    /\ Sections[k].items[i].category = Sections[k].category
                    /\ IsFirstMatch(Sections[k].category, Sections[k].items[i].name)
        /\ CountItems(Sections) = Cardinality(ExpectedKeys)
        /\ \A k, l \in 1..Len(Sections) :
              k < l => CategoryIndex(Sections[k].category)
                       < CategoryIndex(Sections[l].category)

\* 土豆 has a keyword of 蔬菜 and of 主食 and lies in the section 蔬菜, which
\* comes before the section 主食 with 大米
C24_Witness ==
    /\ ShoppingCall
    /\ Len(Sections) >= 2
    /\ Sections[1].category = "shucai"
    /\ \E i \in 1..Len(Sections[1].items) :
          Sections[1].items[i].name = <<"tu", "dou">>
    /\ Sections[2].category = "zhushi"
    /\ MatchingCategories(<<"tu", "dou">>) = {"shucai", "zhushi"}

----------------------------------------------------------------------------
(* Traceability of the shopping items *)

AllItems == ItemsOf(Sections)

\* the ids of the recipes of the call that have an ingredient of the name
ContributingIds(name) ==
    {Args.recipes[k].id : k \in
        {j \in 1..Len(Args.recipes) :
            \E i \in 1..Len(Args.recipes[j].ingredients) :
                Args.recipes[j].ingredients[i].name = name}}

\* C25: the recipeIds of each item are the recipes that contribute the
\* ingredient, each id once (with consolidation: every recipe that has the
\* ingredient), also when a recipe occurs several times in the input.
C25_RecipeIdsAreTheContributors ==
    ShoppingCall =>
        \A n \in 1..Len(AllItems) :
            LET ids == AllItems[n].recipeIds
            IN  /\ \A i, j \in 1..Len(ids) : i # j => ids[i] # ids[j]
                /\ Range(ids) \subseteq ContributingIds(AllItems[n].name)
                /\ Consolidating => Range(ids) = ContributingIds(AllItems[n].name)

\* the scaled amounts that the occurrences of the recipe with the given id
\* contribute for the ingredient name, in the order of the input
GroupContributions(name, id) ==
    LET all == Contributions(Args.recipes)
        group == SelectSeq(all, LAMBDA c : c.ingredient.name = name /\ c.recipe.id = id)
    IN  [i \in 1..Len(group) |->
            scaleIngredientAmount(group[i].ingredient.amount,
                                  Args.request.numberOfPeople,
                                  group[i].recipe.servings)]

\* C26: without consolidation the items are grouped by name and recipe id,
\* and the quantity of a group accounts for every occurrence of the recipe:
\* the scaled amounts are summed when the units match.
C26_UnconsolidatedGroupsAreCombined ==
    (ShoppingCall /\ ~ Consolidating) =>
        \A n \in 1..Len(AllItems) :
            AllItems[n].quantity =
                JoinPlus(SummedByUnit(<<>>,
                    GroupContributions(AllItems[n].name, AllItems[n].recipeIds[1])))


----------------------------------------------------------------------------
(* Aggregate times, scores and cost of the dish combination *)

Combination == Result.data.combination

CookMinutes == [i \in 1..Len(Dishes) |-> parseTimeInMinutes(Dishes[i].recipe.cookTime)]

PrepMinutes == [i \in 1..Len(Dishes) |-> parseTimeInMinutes(Dishes[i].recipe.prepTime)]

LongestCook == CHOOSE m \in Range(CookMinutes) : \A t \in Range(CookMinutes) : t <= m

\* ten times max(longest single cook time, 0.6 x the sum of the cook times)
TenfoldParallelEstimate == Max(10 * LongestCook, 6 * SumSeq(CookMinutes))

\* C27: the aggregate cook time of a non-empty combination is
\* max(longest single cook time, 0.6 x sum of the cook times) rounded to the
\* nearest minute, hence between the longest cook time and the plain sum, and
\* the aggregate prep time is the plain sum of the prep times.
C27_ParallelCookTime ==
    (CombinationSucceeded /\ Len(Dishes) >= 1) =>
        LET cook == parseTimeInMinutes(Combination.totalCookTime)
        IN /\ 10 * cook - 5 <= TenfoldParallelEstimate
           /\ TenfoldParallelEstimate < 10 * cook + 5
           /\ LongestCook <= cook
           /\ cook <= SumSeq(CookMinutes)
           /\ parseTimeInMinutes(Combination.totalPrepTime) = SumSeq(PrepMinutes)

\* 红烧肉 (20 minutes) and 炒白菜 (18 minutes): 0.6 x 38 = 22.8 exceeds the
\* longest time, and the aggregate is 23 minutes
C27_Witness ==
    /\ CombinationSucceeded
    /\ Len(Dishes) = 2
    /\ LongestCook = 20
    /\ SumSeq(CookMinutes) = 38
    /\ Combination.totalCookTime = Minutes(23)
    /\ Combination.totalPrepTime = Minutes(15)

WithinScale(score) == 0 <= score /\ score <= 10

NumberWithinScale(score) ==
    /\ ~ score.nan
    /\ 0 <= score.num
    /\ score.num <= 10 * score.den

\* C28: the scores of the analysis of every returned combination, one with
\* zero dishes included, lie within 0..10, and difficultyBalance is
\* max(1, 11 - 2 x number of distinct difficulty levels).
C28_ScoresWithinScale ==
    CombinationSucceeded =>
        LET analysis == Result.data.analysis
            levels == Cardinality({Dishes[i].recipe.difficulty : i \in 1..Len(Dishes)})
        IN /\ WithinScale(analysis.nutritionalScore)
           /\ WithinScale(analysis.flavorHarmony)
           /\ WithinScale(analysis.difficultyBalance)
           /\ NumberWithinScale(analysis.timeEfficiency)
           /\ NumberWithinScale(analysis.overallScore)
           /\ analysis.difficultyBalance = Max(1, 11 - 2 * levels)

\* the price range of the requested budget tier, 中等 when none is requested
TierRange ==
    CASE Args.preferences.budgetLevel = Some("jingji") -> <<20, 40>>
      [] Args.preferences.budgetLevel = Some("gaodang") -> <<80, 150>>
      [] OTHER -> <<40, 80>>

\* C30: the estimatedCost "L-U元" of a returned combination has L <= U, with
\* L and U inside the price range of the budget tier.
C30_CostWithinTierRange ==
    CombinationSucceeded =>
        LET cost == Combination.estimatedCost
        IN /\ cost.low <= cost.high
           /\ TierRange[1] <= cost.low /\ cost.low <= TierRange[2]
           /\ TierRange[1] <= cost.high /\ cost.high <= TierRange[2]


----------------------------------------------------------------------------
(* Writes of the catalog: RecipeDataManager *)

\* the recipes a caller adds: one of each id, and 蒸蛋 under the id r1
NewRecipes ==
    {RecipePool[id] : id \in Ids} \cup {[RecipePool.r4 EXCEPT !.id = "r1"]}

\* the Partial<Recipe> values a caller passes to updateRecipe
RecipePatches ==
    {[difficulty |-> "kunnan"],
     [id |-> "r2", name |-> <<"zheng", "dan">>],
     [id |-> "r9"]}

HasId(recipes, id) == \E i \in 1..Len(recipes) : recipes[i].id = id

\* this.recipes.findIndex(r => r.id === id), counted from 1; 0 when absent
findIndex(recipes, id) ==
    IF HasId(recipes, id)
    THEN CHOOSE i \in 1..Len(recipes) :
            /\ recipes[i].id = id
            /\ \A j \in 1..(i - 1) : recipes[j].id # id
    ELSE 0

InitManager ==
    /\ catalog \in Catalogs(MaxCatalog)
    /\ input = None
    /\ response = None
    /\ calls = <<>>

\* addRecipe(recipe): throws when the id exists, returns nothing otherwise
CallAddRecipe ==
    /\ Idle
    /\ \E recipe \in NewRecipes :
          /\ input' = Some([op |-> "addRecipe", recipe |-> recipe])
          /\ response' = Some([thrown |-> HasId(catalog, recipe.id)])
          /\ catalog' = addRecipe(catalog, recipe)
    /\ UNCHANGED calls

\* updateRecipe(id, updatedRecipe): null when no recipe has the id, the
\* stored recipe otherwise
CallUpdateRecipe ==
    /\ Idle
    /\ LatestInstant(catalog) < MaxClock
    /\ \E id \in Ids, updatedRecipe \in RecipePatches :
          /\ input' = Some([op |-> "updateRecipe", id |-> id,
                            updatedRecipe |-> updatedRecipe])
          /\ catalog' = updateRecipe(catalog, id, updatedRecipe,
                                     LatestInstant(catalog) + 1)
          /\ response' =
                Some([returned |->
                        IF findIndex(catalog, id) = 0 THEN None
                        ELSE Some(catalog'[findIndex(catalog, id)])])
    /\ UNCHANGED calls

\* deleteRecipe(id): false when no recipe has the id, true otherwise
CallDeleteRecipe ==
    /\ Idle
    /\ \E id \in Ids :
          /\ input' = Some([op |-> "deleteRecipe", id |-> id])
          /\ response' = Some([returned |-> HasId(catalog, id)])
          /\ catalog' = deleteRecipe(catalog, id)
    /\ UNCHANGED calls

NextManager ==
    \/ CallAddRecipe
    \/ CallUpdateRecipe
    \/ CallDeleteRecipe
    \/ ReturnResult

SpecManager == InitManager /\ [][NextManager]_vars

IdSeq(recipes) == [i \in 1..Len(recipes) |-> recipes[i].id]

DistinctIds(recipes) ==
    \A i, j \in 1..Len(recipes) : i # j => recipes[i].id # recipes[j].id

\* the call that has just been made
Called(op) == input = None /\ input' # None /\ input'[1].op = op

\* C29: the ids of the catalog stay pairwise distinct under addRecipe,
\* updateRecipe and deleteRecipe; addRecipe with an id that is present throws
\* and changes nothing, updateRecipe leaves the ids as they are whatever id
\* the patch carries, and updateRecipe and deleteRecipe on an absent id return
\* null and false and change nothing.
C29_IdsStayUnique ==
    [][/\ DistinctIds(catalog')
       /\ Called("addRecipe") =>
             IF input'[1].recipe.id \in Range(IdSeq(catalog))
             THEN response'[1].thrown /\ catalog' = catalog
             ELSE ~ response'[1].thrown
                  /\ catalog' = catalog \o <<input'[1].recipe>>
       /\ Called("updateRecipe") =>
             /\ IdSeq(catalog') = IdSeq(catalog)
             /\ IF input'[1].id \in Range(IdSeq(catalog))
                THEN /\ response'[1].returned # None
                     /\ response'[1].returned[1].id = input'[1].id
                     /\ response'[1].returned[1] \in Range(catalog')
                ELSE response'[1].returned = None /\ catalog' = catalog
       /\ Called("deleteRecipe") =>
             IF input'[1].id \in Range(IdSeq(catalog))
             THEN response'[1].returned
                  /\ Range(IdSeq(catalog')) = Range(IdSeq(catalog)) \ {input'[1].id}
             ELSE ~ response'[1].returned /\ catalog' = catalog
      ]_vars

\* updateRecipe("r1", {id: "r2", name: 蒸蛋}) on a catalog that holds r1 and
\* r2: the recipe takes the name and keeps the id r1
C29_Witness ==
    /\ input # None
    /\ "op" \in DOMAIN input[1]
    /\ input[1].op = "updateRecipe"
    /\ input[1].id = "r1"
    /\ "id" \in DOMAIN input[1].updatedRecipe
    /\ input[1].updatedRecipe.id = "r2"
    /\ response[1].returned # None
    /\ response[1].returned[1].id = "r1"
    /\ response[1].returned[1].name = <<"zheng", "dan">>
    /\ {"r1", "r2"} \subseteq Range(IdSeq(catalog))
    /\ DistinctIds(catalog)

====
